---- MODULE Spec2Model ----
(***************************************************************************)
(* Seven parts, each with its own variables and specification; a step of    *)
(* one part leaves the variables of the others unchanged.                  *)
(*   GuardSpec, GuardFairSpec   the background-task guard (livewire-daz)   *)
(*   ToolSpec                   the guard and the cloud-function dispatch  *)
(*   TranslateSpec              GeminiTranslator.translate (chirp2)        *)
(*   SpeechSpec                 generate_speech (chirp2)                   *)
(*   TranscribeSpec             one transcription request (gemini-3)       *)
(*   UsageSpec                  the output-token count of a call (gemini-3) *)
(*   SessionSpec, SessionFairSpec   the live sessions and workers (chirp2)  *)
(*                                                                         *)
(* Background-task guard of the live proxy server                          *)
(* (livewire-daz/server/core/tool_handler.py) and the automation call it   *)
(* dispatches (livewire-daz/server/computer_agent/runner.py).              *)
(*                                                                         *)
(* The guard runs on one asyncio event loop: every action below named      *)
(* after execute_tool or run_and_log_task is one uninterrupted run of the  *)
(* code between two suspension points (await).  run_computer_agent_task    *)
(* runs on an executor thread, so its steps interleave freely with the     *)
(* event loop's.                                                           *)
(***************************************************************************)
EXTENDS Integers, Sequences, FiniteSets

\* Number of accepted starts the model follows (task handles 1..MaxTasks).
MaxTasks == 2

\* background_task = None (tool_handler.py line 32); task handles are 1..MaxTasks.
None == 0

Tasks == 1..MaxTasks

\* params.get("query"): "" stands for a missing or empty query.
Queries == {"", "X", "Y"}

VARIABLES
    background_task,    \* the process-wide slot: None or a task handle
    taskPc,             \* per task: where the run_and_log_task coroutine is
    mustCancel,         \* per task: cancel() was requested and not yet delivered
    callPc,             \* per task: where its run_computer_agent_task call is
    callResult,         \* per task: what the automation call returned
    agent_stop_event,   \* threading.Event of runner.py
    turns,              \* per task: the turns sent to the conversation
    cleanups,           \* per task: executions of the finally block
    lastStep,           \* which function ran in the last step
    response            \* what execute_tool returned in the last step, if it ran

guardVars == <<background_task, taskPc, mustCancel, callPc, callResult,
               agent_stop_event, turns, cleanups, lastStep, response>>

\* Everything but the record of the last step and its response.
guardState == <<background_task, taskPc, mustCancel, callPc, callResult,
                agent_stop_event, turns, cleanups>>

(***************************************************************************)
(* Variables of the other parts                                            *)
(***************************************************************************)

\* GeminiTranslator.translate, one call: its argument, where the call stands,
\* what it returned and how many external generate_content calls it made.
VARIABLES trText, trPc, trResult, trCalls

trVars == <<trText, trPc, trResult, trCalls>>

\* No translate call is under way.
TranslateIdle ==
    /\ trText = << >>
    /\ trPc = "idle"
    /\ trResult = << >>
    /\ trCalls = 0

\* One generate_speech call (chirp2-translator/app.py): its arguments, where
\* it stands, the voice handed to synthesize_speech, what that call did and
\* what generate_speech did.
VARIABLES spArgs, spPc, spVoice, spOutcome, spResult

spVars == <<spArgs, spPc, spVoice, spOutcome, spResult>>

\* No generate_speech call is under way.
SpeechIdle ==
    /\ spArgs = [target_language |-> "", voice_gender |-> << >>]
    /\ spPc = "idle"
    /\ spVoice = [language_code |-> "", ssml_gender |-> ""]
    /\ spOutcome = "none"
    /\ spResult = "none"

\* One transcription request (gemini-3-transcribe, web route or CLI main):
\* which program serves it, its arguments, where it stands, the path chosen,
\* the local variable uploaded_file, the state of the file held by the Files
\* API, the polls made so far, the external calls in order, whether a failed
\* deletion was logged, how the request ended, the local variable
\* total_cost, the total the request reported, the text the transcription
\* call returned, the text handed to summarize and, as history, the cost
\* estimate of each call that returned one.  Costs are in millionths of a
\* dollar.
VARIABLES txApp, txArgs, txPc, txPath, uploaded_file, txRemote, txPolls,
          txCalls, txWarned, txExit, total_cost, estimated_cost,
          transcription, summarized, estimates

txVars == <<txApp, txArgs, txPc, txPath, uploaded_file, txRemote, txPolls,
            txCalls, txWarned, txExit, total_cost, estimated_cost,
            transcription, summarized, estimates>>

\* The cost and the texts of the request.
txCost == <<total_cost, estimated_cost, transcription, summarized>>

NoArgs ==
    [size |-> 0, upload |-> FALSE, inline |-> FALSE, keep_uploaded |-> FALSE,
     summary |-> FALSE, content |-> "a", key |-> FALSE, youtube_url |-> "",
     suffix |-> "", start |-> << >>, end |-> << >>, use_timestamps |-> FALSE]

\* No transcription request is under way.
TranscribeIdle ==
    /\ txApp = "none"
    /\ txArgs = NoArgs
    /\ txPc = "idle"
    /\ txPath = "none"
    /\ uploaded_file = "None"
    /\ txRemote = "none"
    /\ txPolls = 0
    /\ txCalls = << >>
    /\ txWarned = FALSE
    /\ txExit = "none"
    /\ total_cost = 0
    /\ estimated_cost = 0
    /\ transcription = ""
    /\ summarized = ""
    /\ estimates = << >>

\* The live translation sessions (chirp2-translator/app.py).
\*   connState   per connection id: not yet connected, in the sessions table,
\*               or removed from it
\*   sessions    the record of each connection id (a worker keeps its reference
\*               to the record after the id has left the table)
\*   startPc, stopPc, discPc   whether a start_session, stop_session or
\*               disconnect handler of the connection is inside its wait
\*   workers     the streaming_transcribe threads and their request generators
\*   nextChunk   the next audio chunk a client will send
\*   nextResult  the next result a recognition stream will deliver
\*   emitted     history: per room, how many notifications of each kind the
\*               handlers emitted to it, per worker, the notifications
\*               that worker emitted to it, in order, and the tts_audio
\*               notifications
\*   sent, enqueued, due   history: the chunks received from each connection,
\*               those put on its audio queue, and how many had been received
\*               when session_started was last emitted
\*   finals      history: the final results accepted since the last start
\*   tts         per connection: the request_tts handler inside its
\*               generate_speech call, and what became of the last request
\*   nextTts     the next payload the synthesis service will return
\*   synthesized history: the payload of the latest synthesis that succeeded
\*               since the last start (0 when there was none)
\*   stopsHandled   history: the stop_session handlers that have finished
\*   downloaded  the answer to the last download request
\*   load        what the clients and the external services do in this run:
\*               which ids connect, how many starts, chunks, results and
\*               synthesis requests there are, and whether clients stop,
\*               clients disconnect, external calls fail, results come
\*               without alternatives, files are downloaded, and a start
\*               request is handled for an id that is not in the table
VARIABLES connState, sessions, startPc, stopPc, discPc, workers, nextChunk,
          nextResult, emitted, sent, enqueued, due, finals, tts, nextTts,
          synthesized, stopsHandled, downloaded, load

sessVars == <<connState, sessions, startPc, stopPc, discPc, workers, nextChunk,
              nextResult, emitted, sent, enqueued, due, finals, tts, nextTts,
              synthesized, stopsHandled, downloaded, load>>

\* The variables of request_tts, of the count of stops and of the downloads.
ttsVars == <<tts, nextTts, synthesized>>

laterVars == <<ttsVars, stopsHandled, downloaded>>

SIDs == {"A", "B"}

MaxStarts == 2

WorkerIds == 1..MaxStarts

HandlerEvents == {"connected", "session_started", "session_stopped", "error"}

\* The record handle_connect creates; tts_audio 0 is None.
NewSession ==
    [active |-> FALSE, stream_active |-> FALSE, stream_thread |-> 0,
     audio_queue |-> << >>, pending_audio |-> << >>, audio_chunks |-> << >>,
     original_text |-> << >>, translated_text |-> << >>, tts_audio |-> 0,
     source_language |-> "en-US", target_language |-> "Spanish",
     show_timestamps |-> FALSE, voice_gender |-> "NEUTRAL"]

\* The data of the start_session requests: the first one leaves every field
\* to its default, a later one names other languages and options.
StartData(w) ==
    IF w = 1
    THEN [source_language |-> "en-US", target_language |-> "Spanish",
          show_timestamps |-> FALSE, voice_gender |-> "NEUTRAL"]
    ELSE [source_language |-> "fr-FR", target_language |-> "German",
          show_timestamps |-> TRUE, voice_gender |-> "FEMALE"]

\* A thread that has not been created.  cur is the result the response loop
\* took last, last what the loop did with it, translations the translate
\* calls the thread has made.
NoWorker ==
    [sid |-> "none", pc |-> "unborn", gen |-> "idle", cur |-> 0, calls |-> 0,
     forwarded |-> << >>, last |-> "none", translations |-> 0]

\* No request_tts of the connection is under way.
NoTts == [pc |-> "idle", n |-> 0, voice_gender |-> "", outcome |-> "none"]

\* No download has been requested.
NoDownload == [sid |-> "none", kind |-> "none", status |-> "none"]

\* A run in which the live sessions get no client.
NoLoad ==
    [clients |-> {}, starts |-> 0, chunks |-> 0, results |-> 0,
     stops |-> FALSE, disconnects |-> FALSE, failures |-> FALSE,
     syntheses |-> 0, empties |-> FALSE, downloads |-> FALSE, lateStarts |-> FALSE]

\* No client has connected.
SessionStart ==
    /\ connState = [s \in SIDs |-> "new"]
    /\ sessions = [s \in SIDs |-> NewSession]
    /\ startPc = [s \in SIDs |-> "idle"]
    /\ stopPc = [s \in SIDs |-> "idle"]
    /\ discPc = [s \in SIDs |-> "idle"]
    /\ workers = [w \in WorkerIds |-> NoWorker]
    /\ nextChunk = 1
    /\ nextResult = 1
    /\ emitted = [s \in SIDs |->
                     [handlers |-> [e \in HandlerEvents |-> 0],
                      workers |-> [w \in WorkerIds |-> << >>],
                      tts_audio |-> << >>]]
    /\ tts = [s \in SIDs |-> NoTts]
    /\ nextTts = 1
    /\ synthesized = [s \in SIDs |-> 0]
    /\ stopsHandled = [s \in SIDs |-> 0]
    /\ downloaded = NoDownload
    /\ sent = [s \in SIDs |-> << >>]
    /\ enqueued = [s \in SIDs |-> << >>]
    /\ due = [s \in SIDs |-> 0]
    /\ finals = [s \in SIDs |-> << >>]

\* The live sessions are not used.
SessionIdle == SessionStart /\ load = NoLoad

\* execute_tool's dispatch to the cloud functions (tool_handler.py):
\*   requested   history: an HTTP request has been issued
VARIABLE requested

toolVars == <<requested>>

\* No cloud function has been called.
ToolIdle == requested = FALSE

\* The token count of one generate_content response (AudioTranscriber.transcribe
\* and AudioTranscriber.summarize): which method made the call, the response,
\* where the method stands and its local variable output_tokens.
VARIABLES usCall, usResponse, usPc, output_tokens

usVars == <<usCall, usResponse, usPc, output_tokens>>

\* A response of which nothing is known yet; candidates_token_count -1 stands
\* for a usage_metadata without that attribute.
NoResponse == [usage_metadata |-> "absent", candidates_token_count |-> -1, text |-> << >>]

\* No generate_content call has returned.
UsageIdle ==
    /\ usCall = "none"
    /\ usResponse = NoResponse
    /\ usPc = "idle"
    /\ output_tokens = 0

\* The variables a step of the token count leaves alone.
nonUsageVars == <<guardVars, toolVars, trVars, spVars, txVars, sessVars>>

\* The variables a step of the guard leaves alone.
nonGuardVars == <<toolVars, usVars, trVars, spVars, txVars, sessVars>>

\* The variables a step of the translator leaves alone.
nonTranslateVars == <<guardVars, toolVars, usVars, spVars, txVars, sessVars>>

\* The variables a step of a transcription request leaves alone.
nonTranscribeVars == <<guardVars, toolVars, usVars, trVars, spVars, sessVars>>

\* The variables a step of a live session leaves alone.
nonSessionVars == <<guardVars, toolVars, usVars, trVars, spVars, txVars>>

\* The variables a step of generate_speech leaves alone.
nonSpeechVars == <<guardVars, toolVars, usVars, trVars, txVars, sessVars>>

vars == <<guardVars, toolVars, usVars, trVars, spVars, txVars, sessVars>>

\* The other parts at rest.
GuardOthersIdle ==
    ToolIdle /\ UsageIdle /\ TranslateIdle /\ SpeechIdle /\ TranscribeIdle /\ SessionIdle

\* Variant of Done that takes a task that is sending its turn for finished.
DoneWhenReporting(t) ==
    taskPc[t] \in {"returned", "cancelled", "raised", "sendSummary", "sendCancelled",
                   "sendError"}

\* asyncio.Task.done(): the coroutine returned, was cancelled, or raised.
Done(t) == taskPc[t] \in {"returned", "cancelled", "raised"}

\* Variant of Running that takes a task whose cancellation was requested for finished.
RunningUnlessCancelling ==
    /\ background_task # None
    /\ ~Done(background_task)
    /\ ~mustCancel[background_task]

\* `background_task and not background_task.done()` (lines 67 and 75).
Running == background_task # None /\ ~Done(background_task)

\* The next unused task handle.
Fresh(t) == taskPc[t] = "none" /\ \A u \in Tasks : u < t => taskPc[u] # "none"

GuardInit ==
    /\ background_task = None
    /\ taskPc = [t \in Tasks |-> "none"]
    /\ mustCancel = [t \in Tasks |-> FALSE]
    /\ callPc = [t \in Tasks |-> "none"]
    /\ callResult = [t \in Tasks |-> "none"]
    /\ agent_stop_event = FALSE
    /\ turns = [t \in Tasks |-> << >>]
    /\ cleanups = [t \in Tasks |-> 0]
    /\ lastStep = "init"
    /\ response = "none"

(***************************************************************************)
(* execute_tool: the two guard operations                                  *)
(***************************************************************************)

\* background_task.cancel() (line 69) on a task that is not done.  The request is
\* delivered as CancelledError at the task's next step.  A task awaiting the executor
\* future passes the request on to it: a call no thread has picked up yet is dropped
\* (drop) or is picked up all the same; a call already executing cannot be interrupted.
TaskCancel(t, drop) ==
    /\ mustCancel' = [mustCancel EXCEPT ![t] = TRUE]
    /\ drop => taskPc[t] = "awaitCall" /\ callPc[t] = "pending"
    /\ callPc' = IF drop THEN [callPc EXCEPT ![t] = "dropped"] ELSE callPc

\* Variant of StopComputerTask that sets the event before it looks at the slot.
StopSetsEventFirst(drop) ==
    /\ lastStep' = "stop_computer_task"
    /\ UNCHANGED nonGuardVars
    /\ agent_stop_event' = TRUE
    /\ IF Running
       THEN /\ TaskCancel(background_task, drop)
            /\ response' = "success"
            /\ UNCHANGED <<background_task, taskPc, callResult, turns, cleanups>>
       ELSE /\ ~drop
            /\ response' = "no_task"
            /\ UNCHANGED <<background_task, taskPc, mustCancel, callPc, callResult,
                           turns, cleanups>>

\* tool_name == "stop_computer_task" (lines 65-72).
StopComputerTask(drop) ==
    /\ lastStep' = "stop_computer_task"
    /\ UNCHANGED nonGuardVars
    /\ IF Running
       THEN /\ agent_stop_event' = TRUE
            /\ TaskCancel(background_task, drop)
            /\ response' = "success"
            /\ UNCHANGED <<background_task, taskPc, callResult, turns, cleanups>>
       ELSE /\ ~drop
            /\ response' = "no_task"
            /\ UNCHANGED guardState

\* Lines 83-88: run_in_executor submits the call, create_task schedules the wrapper
\* (its first step runs later), and the slot is filled; no await in between.
Schedule(t) ==
    /\ callPc' = [callPc EXCEPT ![t] = "pending"]
    /\ taskPc' = [taskPc EXCEPT ![t] = "created"]
    /\ background_task' = t
    /\ UNCHANGED <<mustCancel, callResult, agent_stop_event, turns, cleanups>>

\* Variant of ExecuteComputerTask that validates its arguments before it looks at
\* the slot.
ExecuteComputerTaskValidatesFirst(query, session) ==
    /\ lastStep' = "execute_computer_task"
    /\ UNCHANGED nonGuardVars
    /\ IF query = ""
       THEN response' = "Missing query" /\ UNCHANGED guardState
       ELSE IF ~session
       THEN response' = "Missing session" /\ UNCHANGED guardState
       ELSE IF Running
       THEN response' = "already_running" /\ UNCHANGED guardState
       ELSE /\ response' = "started"
            /\ \E t \in Tasks : Fresh(t) /\ Schedule(t)

\* tool_name == "execute_computer_task" (lines 74-90); session is whether a
\* genai_session was passed.
ExecuteComputerTask(query, session) ==
    /\ lastStep' = "execute_computer_task"
    /\ UNCHANGED nonGuardVars
    /\ IF Running
       THEN response' = "already_running" /\ UNCHANGED guardState
       ELSE IF query = ""
       THEN response' = "Missing query" /\ UNCHANGED guardState
       ELSE IF ~session
       THEN response' = "Missing session" /\ UNCHANGED guardState
       ELSE /\ response' = "started"
            /\ \E t \in Tasks : Fresh(t) /\ Schedule(t)

(***************************************************************************)
(* run_and_log_task: the wrapper coroutine, one action per resumption      *)
(***************************************************************************)

\* The finally block (lines 57-59).
Cleanup(t) ==
    /\ background_task' = None
    /\ cleanups' = [cleanups EXCEPT ![t] = @ + 1]

\* Variant of Finish that clears the slot on the normal return only (the assignment
\* at the end of the try block instead of in finally).
FinishClearsOnReturnOnly(t, how) ==
    /\ taskPc' = [taskPc EXCEPT ![t] = how]
    /\ IF how = "returned" THEN Cleanup(t) ELSE UNCHANGED <<background_task, cleanups>>

\* The coroutine ends (how: "returned", "cancelled", "raised") through finally.
Finish(t, how) ==
    /\ taskPc' = [taskPc EXCEPT ![t] = how]
    /\ Cleanup(t)

\* The text passed to genai_session.send at lines 48, 53 and 56.
SendText(pc) ==
    CASE pc = "sendSummary" -> "summary"
      [] pc = "sendCancelled" -> "The task has been cancelled."
      [] pc = "sendError" -> "An error occurred during the task."

\* First step of the task created at line 86.  A cancel() requested before it is thrown
\* into the coroutine before its first statement: the try block is never entered and
\* the task ends cancelled.  Otherwise the coroutine runs to `await coro` (line 42).
TaskFirstStep(t) ==
    /\ taskPc[t] = "created"
    /\ lastStep' = "run_and_log_task" /\ response' = "none"
    /\ UNCHANGED nonGuardVars
    /\ taskPc' = [taskPc EXCEPT ![t] = IF mustCancel[t] THEN "cancelled" ELSE "awaitCall"]
    /\ mustCancel' = [mustCancel EXCEPT ![t] = FALSE]
    /\ UNCHANGED <<background_task, callPc, callResult, agent_stop_event,
                   turns, cleanups>>

\* `await coro` (line 42) resumes: with CancelledError (line 51), with the call's
\* result (lines 43-48, then finally when the status is not success), or with the
\* call's exception (line 54).
TaskCallResume(t) ==
    /\ taskPc[t] = "awaitCall"
    /\ mustCancel[t] \/ callPc[t] = "returned"
    /\ lastStep' = "run_and_log_task" /\ response' = "none"
    /\ UNCHANGED nonGuardVars
    /\ mustCancel' = [mustCancel EXCEPT ![t] = FALSE]
    /\ IF mustCancel[t]
       THEN /\ taskPc' = [taskPc EXCEPT ![t] = "sendCancelled"]
            /\ UNCHANGED <<background_task, cleanups>>
       ELSE IF callResult[t] = "success"
       THEN /\ taskPc' = [taskPc EXCEPT ![t] = "sendSummary"]
            /\ UNCHANGED <<background_task, cleanups>>
       ELSE IF callResult[t] = "raised"
       THEN /\ taskPc' = [taskPc EXCEPT ![t] = "sendError"]
            /\ UNCHANGED <<background_task, cleanups>>
       ELSE Finish(t, "returned")
    /\ UNCHANGED <<callPc, callResult, agent_stop_event, turns>>

\* `await genai_session.send(...)` (line 48, 53 or 56) resumes: with CancelledError
\* (the turn may or may not have gone out: delivered), with an exception of the send
\* (nothing went out), or normally (the turn went out).
TaskSendResume(t, delivered, raises) ==
    /\ taskPc[t] \in {"sendSummary", "sendCancelled", "sendError"}
    /\ lastStep' = "run_and_log_task" /\ response' = "none"
    /\ UNCHANGED nonGuardVars
    /\ mustCancel' = [mustCancel EXCEPT ![t] = FALSE]
    /\ turns' = IF delivered THEN [turns EXCEPT ![t] = Append(@, SendText(taskPc[t]))]
                ELSE turns
    /\ IF mustCancel[t]
       THEN /\ ~raises
            /\ IF taskPc[t] = "sendSummary"
               THEN /\ taskPc' = [taskPc EXCEPT ![t] = "sendCancelled"]
                    /\ UNCHANGED <<background_task, cleanups>>
               ELSE Finish(t, "cancelled")
       ELSE IF raises
       THEN /\ ~delivered
            /\ IF taskPc[t] = "sendSummary"
               THEN /\ taskPc' = [taskPc EXCEPT ![t] = "sendError"]
                    /\ UNCHANGED <<background_task, cleanups>>
               ELSE Finish(t, "raised")
       ELSE /\ delivered
            /\ Finish(t, "returned")
    /\ UNCHANGED <<callPc, callResult, agent_stop_event>>

(***************************************************************************)
(* run_computer_agent_task: the automation call on its executor thread     *)
(***************************************************************************)

\* An executor thread picks the call up and runs it to line 33.
CallBegin(t) ==
    /\ callPc[t] = "pending"
    /\ lastStep' = "run_computer_agent_task" /\ response' = "none"
    /\ UNCHANGED nonGuardVars
    /\ callPc' = [callPc EXCEPT ![t] = "entered"]
    /\ UNCHANGED <<background_task, taskPc, mustCancel, callResult,
                   agent_stop_event, turns, cleanups>>

\* Line 33 is outside the try block: an exception of print leaves the call at once.
CallRaises(t) ==
    /\ callPc[t] = "entered"
    /\ lastStep' = "run_computer_agent_task" /\ response' = "none"
    /\ UNCHANGED nonGuardVars
    /\ callPc' = [callPc EXCEPT ![t] = "returned"]
    /\ callResult' = [callResult EXCEPT ![t] = "raised"]
    /\ UNCHANGED <<background_task, taskPc, mustCancel, agent_stop_event,
                   turns, cleanups>>

\* Lines 36-65: agent_stop_event.clear(), then the agent loop is running.
CallClearEvent(t) ==
    /\ callPc[t] = "entered"
    /\ lastStep' = "run_computer_agent_task" /\ response' = "none"
    /\ UNCHANGED nonGuardVars
    /\ callPc' = [callPc EXCEPT ![t] = "looping"]
    /\ agent_stop_event' = FALSE
    /\ UNCHANGED <<background_task, taskPc, mustCancel, callResult,
                   turns, cleanups>>

\* Lines 65-84: the agent loop ends (by itself or on the stop event), the call returns
\* status success (line 74) or status error (line 80), and finally clears the event.
CallReturn(t, status) ==
    /\ callPc[t] = "looping"
    /\ lastStep' = "run_computer_agent_task" /\ response' = "none"
    /\ UNCHANGED nonGuardVars
    /\ callPc' = [callPc EXCEPT ![t] = "returned"]
    /\ callResult' = [callResult EXCEPT ![t] = status]
    /\ agent_stop_event' = FALSE
    /\ UNCHANGED <<background_task, taskPc, mustCancel, turns, cleanups>>

GuardNext ==
    \/ \E query \in Queries, session \in BOOLEAN : ExecuteComputerTask(query, session)
    \/ \E drop \in BOOLEAN : StopComputerTask(drop)
    \/ \E t \in Tasks : TaskFirstStep(t)
    \/ \E t \in Tasks : TaskCallResume(t)
    \/ \E t \in Tasks, delivered \in BOOLEAN, raises \in BOOLEAN :
           TaskSendResume(t, delivered, raises)
    \/ \E t \in Tasks : CallBegin(t)
    \/ \E t \in Tasks : CallRaises(t)
    \/ \E t \in Tasks : CallClearEvent(t)
    \/ \E t \in Tasks, status \in {"success", "error"} : CallReturn(t, status)

GuardSpecInit == GuardInit /\ GuardOthersIdle

GuardSpec == GuardSpecInit /\ [][GuardNext]_vars

\* The event loop runs every wrapper task that is ready: each resumption of
\* run_and_log_task is weakly fair.  Tool invocations and the executor threads'
\* progress are not assumed.
GuardFairness ==
    \A t \in Tasks :
        /\ WF_guardVars(TaskFirstStep(t))
        /\ WF_guardVars(TaskCallResume(t))
        /\ WF_guardVars(\E delivered \in BOOLEAN, raises \in BOOLEAN :
                            TaskSendResume(t, delivered, raises))

GuardFairSpec == GuardSpec /\ GuardFairness

(***************************************************************************)
(* The guard's states as the specification names them                      *)
(***************************************************************************)

\* A task that was created and is not done.
NotDone(t) == taskPc[t] \in {"created", "awaitCall", "sendSummary", "sendCancelled",
                             "sendError"}

\* A task that is done.
Finished(t) == taskPc[t] \in {"returned", "cancelled", "raised"}

\* Running: the slot holds a task that is not done.  Idle: it is empty or holds a
\* done task.
GuardRunning == background_task # None /\ NotDone(background_task)

GuardIdle == ~GuardRunning

\* The automation calls that are executing on an executor thread.
Executing == {t \in Tasks : callPc[t] \in {"entered", "looping"}}

(***************************************************************************)
(* Claims                                                                  *)
(***************************************************************************)

\* C1: every task that is not done is the task in the slot (so at most one task is not
\* done, and the slot refers to it); a not-done task enters the slot only in a step of
\* execute_computer_task that returns started, and such a step starts from a slot that
\* holds no not-done task.
C1_SingleFlightSlot ==
    /\ [](\A t \in Tasks : NotDone(t) => background_task = t)
    /\ [][(background_task' # background_task /\ GuardRunning')
            => (lastStep' = "execute_computer_task" /\ response' = "started")]_guardVars
    /\ [][(lastStep' = "execute_computer_task" /\ response' = "started")
            => (GuardIdle /\ GuardRunning' /\ background_task' # background_task)]_guardVars

\* C1 witness: a second start was accepted after the first task was done.
C1_Witness ==
    /\ lastStep = "execute_computer_task" /\ response = "started"
    /\ background_task = 2 /\ NotDone(2) /\ Finished(1)

\* C2 (as claimed, for the sequence it names): in the runs in which every wrapper task
\* that is done went through its completion handler (it was cancelled, if at all, after
\* its first step), at most one automation call is executing at any time.
C2_AtMostOneAutomationCall ==
    (\A t \in Tasks : Finished(t) => cleanups[t] = 1) => Cardinality(Executing) <= 1

\* C3: a step of execute_computer_task taken while the guard is Running returns
\* already_running and changes neither the slot, nor any task, nor any automation
\* call, nor the cancellation signal, whatever its arguments.
C3_StartWhileRunningRejected ==
    [][(GuardRunning /\ lastStep' = "execute_computer_task")
         => (response' = "already_running" /\ UNCHANGED guardState)]_guardVars

\* C3 witness: a start was rejected while the task in the slot awaited its call.
C3_Witness ==
    /\ lastStep = "execute_computer_task" /\ response = "already_running"
    /\ GuardRunning /\ taskPc[background_task] = "awaitCall"

\* C4: a step of stop_computer_task taken while the guard is Idle returns no_task and
\* changes neither the cancellation signal, nor the slot, nor any task or call.
C4_StopWhileIdleNoTask ==
    [][(GuardIdle /\ lastStep' = "stop_computer_task")
         => (response' = "no_task" /\ UNCHANGED guardState)]_guardVars

\* C4 witness: stop answered no_task while the slot held a done task.
C4_Witness ==
    /\ lastStep = "stop_computer_task" /\ response = "no_task"
    /\ background_task # None /\ Finished(background_task)

\* C5 (as claimed): a stop taken while Running sets the signal, requests the
\* cancellation and leaves the guard Running with the same task in the slot; and the
\* guard leaves Running only in a step that runs the completion handler's cleanup.
C5_StopLeavesRunningUntilHandler ==
    /\ [][(GuardRunning /\ lastStep' = "stop_computer_task")
            => /\ response' = "success"
               /\ agent_stop_event'
               /\ mustCancel'[background_task]
               /\ background_task' = background_task
               /\ GuardRunning']_guardVars
    /\ [][(GuardRunning /\ GuardIdle') => cleanups' # cleanups]_guardVars

\* C6 (as claimed): when an accepted start returns, the guard is Running and the
\* cancellation signal is clear.
C6_AcceptedStartClearsSignal ==
    [][(lastStep' = "execute_computer_task" /\ response' = "started")
         => (GuardRunning' /\ ~agent_stop_event')]_guardVars

C8_EveryCompletionReports ==
    \A t \in Tasks : (taskPc[t] = "returned" /\ cleanups[t] = 1) => Len(turns[t]) >= 1

\* C9 (as claimed): for a task that is done the completion handler ran exactly once,
\* the slot does not hold the task, no CancelledError escaped the handler, and the
\* conversation received at most one turn.
C9_HandlerOnceAndIdempotent ==
    \A t \in Tasks :
        Finished(t) => /\ cleanups[t] = 1
                       /\ background_task # t
                       /\ taskPc[t] # "cancelled"
                       /\ Len(turns[t]) <= 1

\* C10 (as claimed): once stop was accepted for the task in the slot, the completion
\* handler of that task eventually runs and empties the slot; and a start issued while
\* the guard is Idle is not rejected with already_running.
C10_StopLeadsToClearedSlot ==
    /\ \A t \in Tasks :
          (lastStep = "stop_computer_task" /\ response = "success" /\ background_task = t)
            ~> (cleanups[t] = 1 /\ background_task # t)
    /\ [][(GuardIdle /\ lastStep' = "execute_computer_task")
            => response' # "already_running"]_guardVars

\* Claim side: stop was accepted for task t: its cancellation is requested or
\* has been delivered.
StopAccepted(t) ==
    \/ mustCancel[t]
    \/ taskPc[t] \in {"sendCancelled", "cancelled"}
    \/ \E i \in 1..Len(turns[t]) : turns[t][i] = "The task has been cancelled."

\* C35: while the automation call of a task for which stop was accepted has
\* not returned, a cancellation signal that is set stays set; only the step
\* in which that call returns, having seen the signal at a polling point or
\* having ended by itself, may clear it.
C35_AcceptedStopNotLost ==
    [][\A t \in Tasks :
          (/\ StopAccepted(t)
           /\ callPc[t] \in {"pending", "entered", "looping"}
           /\ agent_stop_event)
             => (agent_stop_event' \/ callPc'[t] = "returned")]_vars

\* C36: a step in which run_and_log_task of task t runs its finally block
\* starts with the slot holding t or nothing, for every interleaving of
\* starts, stops and completions; it never empties a slot that holds another
\* task.
C36_CleanupClearsOwnSlot ==
    [][\A t \in Tasks :
          cleanups'[t] # cleanups[t] =>
              /\ background_task \in {t, None}
              /\ background_task' = None]_vars

\* The first task was stopped and went through its finally block, and the
\* second task, accepted after it, has gone through its own.
C36_Witness ==
    /\ taskPc[1] = "cancelled" /\ cleanups[1] = 1
    /\ Finished(2) /\ cleanups[2] = 1
    /\ background_task = None

\* Claim side: the results execute_tool returns under the key "error" for a
\* start it does not accept for its arguments.
ArgumentErrors == {"Missing query", "Missing session"}

\* C40: in a state in which the guard is Idle, every start whose query is
\* missing or empty, or that has no conversation session, returns an error
\* result, changes no task, no automation call and not the cancellation
\* signal, and leaves the slot empty; in a state in which the guard is
\* Running the same request returns already_running.
C40_InvalidStartRejected ==
    \A query \in Queries, session \in BOOLEAN :
        (query = "" \/ ~session) =>
            /\ GuardIdle =>
                   ~ENABLED (/\ ExecuteComputerTask(query, session)
                             /\ ~(/\ response' \in ArgumentErrors
                                  /\ UNCHANGED guardState
                                  /\ background_task' = None))
            /\ GuardRunning =>
                   ~ENABLED (/\ ExecuteComputerTask(query, session)
                             /\ response' # "already_running")


(***************************************************************************)
(* execute_tool: every other tool name goes to the cloud functions         *)
(* (tool_handler.py lines 92-131).  The coroutine touches nothing of the   *)
(* guard between its request and its return, so the invocation is one      *)
(* step; lastStep holds the tool name invoked.                             *)
(***************************************************************************)

\* The keys of CLOUD_FUNCTIONS (config.py).
CLOUD_FUNCTIONS ==
    {"get_weather", "get_weather_forecast", "get_next_appointment",
     "get_past_appointments"}

GuardOperations == {"stop_computer_task", "execute_computer_task"}

\* The tool names invoked: a key of the registry and a name that is no key.
ToolNames == {"get_weather", "get_time"}

\* What becomes of a call to a registered function: its URL is not set in the
\* environment, the connection fails, the status is not 200, the body is not
\* JSON, or the body's JSON is returned.
Outcomes == {"unset", "client_error", "status", "invalid_json", "json"}

\* Variant of CloudFunction that builds the URL without looking the name up.
CloudFunctionUnchecked(tool_name, outcome) ==
    /\ lastStep' = tool_name
    /\ response' = CASE outcome = "unset" -> "Tool execution failed"
                     [] outcome = "client_error" -> "Failed to call cloud function"
                     [] outcome = "status" -> "Cloud function returned status"
                     [] outcome = "invalid_json" -> "Invalid JSON response from cloud function"
                     [] OTHER -> "json"
    /\ requested' = (requested \/ outcome # "unset")
    /\ UNCHANGED <<guardState, usVars, trVars, spVars, txVars, sessVars>>

\* Lines 92-131.
CloudFunction(tool_name, outcome) ==
    /\ lastStep' = tool_name
    /\ IF tool_name \notin CLOUD_FUNCTIONS
       THEN /\ outcome = "unset"
            /\ response' = "Unknown tool: " \o tool_name
            /\ UNCHANGED requested
       ELSE /\ response' =
                   CASE outcome = "unset" -> "Tool execution failed"
                     [] outcome = "client_error" -> "Failed to call cloud function"
                     [] outcome = "status" -> "Cloud function returned status"
                     [] outcome = "invalid_json" -> "Invalid JSON response from cloud function"
                     [] OTHER -> "json"
            /\ requested' = (requested \/ outcome # "unset")
    /\ UNCHANGED <<guardState, usVars, trVars, spVars, txVars, sessVars>>

ToolNext ==
    \/ GuardNext
    \/ \E tool_name \in ToolNames, outcome \in Outcomes : CloudFunction(tool_name, outcome)

ToolSpec == GuardSpecInit /\ [][ToolNext]_vars

\* C22: an invocation whose tool name is neither a guard operation nor a key
\* of the registry returns the error that names the tool, issues no HTTP
\* request, and leaves the slot and the stop event as they were.
C22_UnknownToolRejected ==
    [][\A tool_name \in ToolNames \ (GuardOperations \cup CLOUD_FUNCTIONS) :
          lastStep' = tool_name =>
              /\ response' = "Unknown tool: " \o tool_name
              /\ requested' = requested
              /\ background_task' = background_task
              /\ agent_stop_event' = agent_stop_event]_vars

\* An unknown tool was invoked while a task was running with the stop event
\* set, before any HTTP request.
C22_Witness ==
    /\ lastStep = "get_time"
    /\ response = "Unknown tool: get_time"
    /\ Running
    /\ agent_stop_event
    /\ ~requested

(***************************************************************************)
(* GeminiTranslator.translate (chirp2-translator/app.py)                   *)
(*                                                                         *)
(* A text is a sequence of characters, so that str.strip() and the         *)
(* emptiness test are computed rather than assumed.  The placeholder of a  *)
(* failed call is the three pieces of the f-string.                        *)
(***************************************************************************)

MaxLen == 3

Whitespace == {" ", "\n"}

Chars == Whitespace \cup {"a"}

Texts == UNION {[1..n -> Chars] : n \in 0..MaxLen}

RECURSIVE LStrip(_)
LStrip(s) ==
    IF s = << >> THEN s
    ELSE IF Head(s) \in Whitespace THEN LStrip(Tail(s)) ELSE s

RECURSIVE RStrip(_)
RStrip(s) ==
    IF s = << >> THEN s
    ELSE IF s[Len(s)] \in Whitespace THEN RStrip(SubSeq(s, 1, Len(s) - 1)) ELSE s

\* str.strip()
Strip(s) == RStrip(LStrip(s))

\* f"[Translation error: {e}]"
TranslationError == <<"[Translation error: ", "e", "]">>

\* translate without its emptiness test: every text goes to the external call.
translateAlwaysCalls(text, raises, resp) ==
    IF raises THEN [result |-> TranslationError, calls |-> 1]
    ELSE [result |-> Strip(resp), calls |-> 1]

\* translate(text, target_language): what it returns and how many external
\* calls it makes, given whether generate_content raises and what it answers.
translate(text, raises, resp) ==
    IF Strip(text) = << >> THEN [result |-> << >>, calls |-> 0]
    ELSE IF raises THEN [result |-> TranslationError, calls |-> 1]
    ELSE [result |-> Strip(resp), calls |-> 1]

TranslateInit == TranslateIdle

\* A caller hands a text to translate.
TranslateCall(text) ==
    /\ trPc = "idle"
    /\ trText' = text
    /\ trPc' = "called"
    /\ UNCHANGED <<trResult, trCalls>>
    /\ UNCHANGED nonTranslateVars

\* The call runs to its return statement.
TranslateReturn(raises, resp) ==
    /\ trPc = "called"
    /\ trPc' = "returned"
    /\ trResult' = translate(trText, raises, resp).result
    /\ trCalls' = trCalls + translate(trText, raises, resp).calls
    /\ UNCHANGED trText
    /\ UNCHANGED nonTranslateVars

TranslateNext ==
    \/ \E text \in Texts : TranslateCall(text)
    \/ \E raises \in BOOLEAN, resp \in Texts : TranslateReturn(raises, resp)

TranslateOthersIdle ==
    GuardInit /\ ToolIdle /\ UsageIdle /\ SpeechIdle /\ TranscribeIdle /\ SessionIdle

TranslateSpecInit == TranslateInit /\ TranslateOthersIdle

TranslateSpec == TranslateSpecInit /\ [][TranslateNext]_vars

\* Claim side: a text with no character other than whitespace.
IsBlank(text) == \A i \in 1..Len(text) : text[i] \in Whitespace

\* C17: for every input text that is empty or whitespace-only, translate
\* returns the empty string and makes no external call.
C17_BlankTextNoCall ==
    (trPc = "returned" /\ IsBlank(trText)) => (trResult = << >> /\ trCalls = 0)

\* A whitespace-only, non-empty text has been translated.
C17_Witness ==
    /\ trPc = "returned"
    /\ Len(trText) = MaxLen
    /\ IsBlank(trText)
    /\ trResult = << >>


(***************************************************************************)
(* generate_speech (chirp2-translator/app.py).  A gender preference is a   *)
(* sequence of characters, so that str.upper() is computed.                *)
(***************************************************************************)

\* TTS_LANGUAGE_MAP: language name, language code.
TTS_LANGUAGE_MAP ==
    {<<"Spanish", "es-ES">>, <<"English", "en-US">>, <<"French", "fr-FR">>,
     <<"German", "de-DE">>, <<"Italian", "it-IT">>, <<"Portuguese", "pt-BR">>,
     <<"Japanese", "ja-JP">>, <<"Korean", "ko-KR">>, <<"Chinese", "zh-CN">>,
     <<"Arabic", "ar-XA">>, <<"Danish", "da-DK">>, <<"Greek", "el-GR">>,
     <<"Indonesian", "id-ID">>, <<"Polish", "pl-PL">>, <<"Thai", "th-TH">>,
     <<"Turkish", "tr-TR">>, <<"Filipino", "fil-PH">>, <<"Cebuano", "ceb-PH">>}

\* gender_map: key, SsmlVoiceGender.
gender_map ==
    {<<<<"M", "A", "L", "E">>, "MALE">>,
     <<<<"F", "E", "M", "A", "L", "E">>, "FEMALE">>,
     <<<<"N", "E", "U", "T", "R", "A", "L">>, "NEUTRAL">>}

\* dict.get(key, default) on a table of pairs
Get(map, key, default) ==
    IF \E p \in map : p[1] = key
    THEN (CHOOSE p \in map : p[1] = key)[2]
    ELSE default

Lowercase ==
    <<"a", "b", "c", "d", "e", "f", "g", "h", "i", "j", "k", "l", "m",
      "n", "o", "p", "q", "r", "s", "t", "u", "v", "w", "x", "y", "z">>

Uppercase ==
    <<"A", "B", "C", "D", "E", "F", "G", "H", "I", "J", "K", "L", "M",
      "N", "O", "P", "Q", "R", "S", "T", "U", "V", "W", "X", "Y", "Z">>

\* A str.upper() that leaves its argument as it is.
upperAsTyped(str) == str

\* str.upper()
upper(str) ==
    [i \in 1..Len(str) |->
        IF \E k \in 1..Len(Lowercase) : Lowercase[k] = str[i]
        THEN Uppercase[CHOOSE k \in 1..Len(Lowercase) : Lowercase[k] = str[i]]
        ELSE str[i]]

\* The language names requested: the names of the table, a name in another
\* case and a name that is not in it.
LanguageNames == {p[1] : p \in TTS_LANGUAGE_MAP} \cup {"spanish", "Klingon"}

\* The gender preferences requested.
GenderPreferences ==
    {<<"M", "A", "L", "E">>, <<"m", "a", "l", "e">>, <<"F", "e", "m", "a", "l", "e">>,
     <<"f", "e", "m", "a", "l", "E">>, <<"N", "E", "U", "T", "R", "A", "L">>,
     <<"n", "e", "u", "t", "r", "a", "l">>, <<"m", "a", "n">>, << >>}

SpeechInit == SpeechIdle

\* generate_speech up to tts_client.synthesize_speech
SpeechCall(target_language, voice_gender) ==
    /\ spPc = "idle"
    /\ spArgs' = [target_language |-> target_language, voice_gender |-> voice_gender]
    /\ spVoice' = [language_code |-> Get(TTS_LANGUAGE_MAP, target_language, "en-US"),
                   ssml_gender |-> Get(gender_map, upper(voice_gender), "NEUTRAL")]
    /\ spPc' = "synthesizing"
    /\ UNCHANGED <<spOutcome, spResult>>
    /\ UNCHANGED nonSpeechVars

\* synthesize_speech returns, and its audio_content is returned, or raises,
\* and the exception is logged and raised again.
SpeechReturn(raises) ==
    /\ spPc = "synthesizing"
    /\ spOutcome' = IF raises THEN "raised" ELSE "returned"
    /\ spResult' = IF raises THEN "raised" ELSE "audio"
    /\ spPc' = "done"
    /\ UNCHANGED <<spArgs, spVoice>>
    /\ UNCHANGED nonSpeechVars

SpeechNext ==
    \/ \E target_language \in LanguageNames, voice_gender \in GenderPreferences :
           SpeechCall(target_language, voice_gender)
    \/ \E raises \in BOOLEAN : SpeechReturn(raises)

SpeechSpecInit ==
    SpeechInit /\ GuardInit /\ ToolIdle /\ UsageIdle /\ TranslateIdle /\ TranscribeIdle /\ SessionIdle

SpeechSpec == SpeechSpecInit /\ [][SpeechNext]_vars

\* Claim side: str.lower(), and equality of two texts ignoring case.
lower(str) ==
    [i \in 1..Len(str) |->
        IF \E k \in 1..Len(Uppercase) : Uppercase[k] = str[i]
        THEN Lowercase[CHOOSE k \in 1..Len(Uppercase) : Uppercase[k] = str[i]]
        ELSE str[i]]

EqualIgnoringCase(a, b) == lower(a) = lower(b)

\* C28: the voice of a synthesis call has the locale the table gives for the
\* language name, en-US for a name the table does not have, the gender that
\* the preference spells ignoring case, NEUTRAL for any other preference;
\* and a call of generate_speech whose synthesis failed has raised.
C28_SpeechArgumentsMapped ==
    spPc # "idle" =>
        /\ \A p \in TTS_LANGUAGE_MAP :
               p[1] = spArgs.target_language => spVoice.language_code = p[2]
        /\ (\A p \in TTS_LANGUAGE_MAP : p[1] # spArgs.target_language) =>
               spVoice.language_code = "en-US"
        /\ \A p \in gender_map :
               EqualIgnoringCase(spArgs.voice_gender, p[1]) => spVoice.ssml_gender = p[2]
        /\ (\A p \in gender_map : ~EqualIgnoringCase(spArgs.voice_gender, p[1])) =>
               spVoice.ssml_gender = "NEUTRAL"
        /\ spOutcome = "raised" => spResult = "raised"

\* A synthesis for a language outside the table and a gender typed in mixed
\* case failed, and so did generate_speech.
C28_Witness ==
    /\ spPc = "done"
    /\ spArgs.target_language = "Klingon"
    /\ spArgs.voice_gender = <<"F", "e", "m", "a", "l", "e">>
    /\ spVoice = [language_code |-> "en-US", ssml_gender |-> "FEMALE"]
    /\ spOutcome = "raised"
    /\ spResult = "raised"

(***************************************************************************)
(* One transcription request (gemini-3-transcribe): app.py transcribe()    *)
(* and gemini_transcribe_cli.py main().                                    *)
(* Sizes are in bytes; file_size_mb = bytes / (1024 * 1024), so            *)
(* file_size_mb <= N is bytes <= N * MB.                                   *)
(***************************************************************************)

MAX_FILE_SIZE_MB == 100

WEB_INLINE_LIMIT_MB == 20

MB == 1024 * 1024

MaxPolls == 2

Apps == {"web", "cli"}

Sizes ==
    {1, WEB_INLINE_LIMIT_MB * MB - 1, WEB_INLINE_LIMIT_MB * MB,
     WEB_INLINE_LIMIT_MB * MB + 1, MAX_FILE_SIZE_MB * MB - 1,
     MAX_FILE_SIZE_MB * MB, MAX_FILE_SIZE_MB * MB + 1}

Contents == {"a", "b"}

\* The URLs submitted: none, one that names no video site, a video's.
Urls == {"", "https://example.com/v", "https://youtu.be/v"}

\* 'youtube.com' in youtube_url or 'youtu.be' in youtube_url
IsYouTubeUrl(url) == url \in {"https://youtu.be/v"}

\* The suffix of the local input file of a CLI run ("" when none is given);
\* .txt is not in SUPPORTED_FORMATS.
SUPPORTED_FORMATS == {".mp3", ".wav", ".aac", ".flac", ".m4a", ".ogg", ".aiff"}

Suffixes == {"", ".mp3", ".txt"}

\* --start and --end as typed: absent, MM:SS, or something else.
Starts == {<< >>, <<"0", ":", "3", "0">>, <<"x", ":", "1">>}

Ends == {<< >>, <<"0", ":", "1", "0">>}

\* len(audio) in milliseconds.
AudioLength == 60 * 1000

\* The requests explored: every combination of the options that decide the
\* path with a valid input, and every combination of the inputs that are
\* validated with the default path options.  The web form has a URL and a
\* summary checkbox and no path, keep or time options.
ArgsOf(app) ==
    IF app = "web"
    THEN [size : Sizes, upload : {FALSE}, inline : {FALSE},
          keep_uploaded : {FALSE}, summary : BOOLEAN, content : Contents,
          key : {TRUE}, youtube_url : {"https://youtu.be/v"}, suffix : {""},
          start : {<< >>}, end : {<< >>}, use_timestamps : {FALSE}]
         \cup
         [size : {1}, upload : {FALSE}, inline : {FALSE},
          keep_uploaded : {FALSE}, summary : BOOLEAN, content : {"a"},
          key : BOOLEAN, youtube_url : Urls, suffix : {""},
          start : {<< >>}, end : {<< >>}, use_timestamps : {FALSE}]
    ELSE [size : Sizes, upload : BOOLEAN, inline : BOOLEAN,
          keep_uploaded : BOOLEAN, summary : BOOLEAN, content : Contents,
          key : {TRUE}, youtube_url : {""}, suffix : {".mp3"},
          start : {<< >>}, end : {<< >>}, use_timestamps : {FALSE}]
         \cup
         {a \in [size : {WEB_INLINE_LIMIT_MB * MB}, upload : {FALSE}, inline : {FALSE},
                 keep_uploaded : {FALSE}, summary : BOOLEAN, content : {"a"},
                 key : BOOLEAN, youtube_url : Urls, suffix : Suffixes,
                 start : Starts, end : Ends, use_timestamps : BOOLEAN] :
             a.youtube_url # "" => a.suffix = ""}

Digits == {"0", "1", "2", "3", "4", "5", "6", "7", "8", "9"}

DigitValue(c) ==
    CASE c = "0" -> 0 [] c = "1" -> 1 [] c = "2" -> 2 [] c = "3" -> 3
      [] c = "4" -> 4 [] c = "5" -> 5 [] c = "6" -> 6 [] c = "7" -> 7
      [] c = "8" -> 8 [] OTHER -> 9

\* int(part) succeeds; the parts typed here hold no sign, space or underscore.
IsInt(part) == part # << >> /\ \A i \in 1..Len(part) : part[i] \in Digits

\* int(part)
RECURSIVE ToInt(_)
ToInt(part) ==
    IF part = << >> THEN 0
    ELSE ToInt(SubSeq(part, 1, Len(part) - 1)) * 10 + DigitValue(part[Len(part)])

\* parse_time: [ok |-> FALSE] stands for the ValueError.
parse_time(time_str) ==
    LET colons == {i \in 1..Len(time_str) : time_str[i] = ":"}
    IN IF Cardinality(colons) # 1 THEN [ok |-> FALSE, ms |-> 0]
       ELSE LET i == CHOOSE j \in colons : TRUE
                minutes == SubSeq(time_str, 1, i - 1)
                seconds == SubSeq(time_str, i + 1, Len(time_str))
            IN IF IsInt(minutes) /\ IsInt(seconds)
               THEN [ok |-> TRUE, ms |-> (ToInt(minutes) * 60 + ToInt(seconds)) * 1000]
               ELSE [ok |-> FALSE, ms |-> 0]

\* trim_audio raises ValueError for its arguments.
TrimRejects(start_time, end_time) ==
    LET start == IF start_time # << >> THEN parse_time(start_time) ELSE [ok |-> TRUE, ms |-> 0]
        end == IF end_time # << >> THEN parse_time(end_time) ELSE [ok |-> TRUE, ms |-> AudioLength]
    IN \/ ~start.ok
       \/ ~end.ok
       \/ start.ms >= end.ms
       \/ start.ms > AudioLength

\* The cost estimates of a call (estimate_cost over the counters the API
\* reports), and round(total_cost, 4) / the format .4f; no sum of the
\* estimates explored lies halfway between two multiples.
Costs == {0, 40, 120}

Round4(cost) == ((cost + 50) \div 100) * 100

\* response.text of the transcription call.
Transcriptions == {"t", "u"}

\* The path test with the limit itself sent to the upload path.
UseUploadAtLimit(app, args) ==
    IF app = "web"
    THEN ~(args.size < WEB_INLINE_LIMIT_MB * MB)
    ELSE args.upload \/ (args.size >= MAX_FILE_SIZE_MB * MB /\ ~args.inline)

\* The path test: TRUE for the Files API upload, FALSE for inline.
UseUpload(app, args) ==
    IF app = "web"
    THEN ~(args.size <= WEB_INLINE_LIMIT_MB * MB)
    ELSE args.upload \/ (args.size > MAX_FILE_SIZE_MB * MB /\ ~args.inline)

TranscribeInit == TranscribeIdle

\* An exception reaches the handler's except clause: 500 (web), exit 1 (CLI).
TxFail ==
    /\ txPc' = "done"
    /\ txExit' = "error"

\* The request ends before the try body's work is done, with its own message.
TxReject(why) ==
    /\ txPc' = "done"
    /\ txExit' = why

\* A request arrives: transcribe() up to download_youtube_audio (app.py), or
\* main() up to download_youtube_audio or, for a local file, up to
\* check_api_enabled (CLI).  validate_file looks at the suffix only.
TxBegin(app, args) ==
    /\ txPc = "idle"
    /\ txApp' = app
    /\ txArgs' = args
    /\ IF ~args.key
       THEN TxReject("no_key")
       ELSE IF app = "web"
       THEN IF args.youtube_url = "" \/ ~IsYouTubeUrl(args.youtube_url)
            THEN TxReject("bad_url")
            ELSE txPc' = "download" /\ UNCHANGED txExit
       ELSE IF args.youtube_url # ""
       THEN txPc' = "download" /\ UNCHANGED txExit
       ELSE IF args.suffix = ""
       THEN TxReject("no_input")
       ELSE IF args.suffix \notin SUPPORTED_FORMATS
       THEN TxReject("bad_format")
       ELSE txPc' = "check_api" /\ UNCHANGED txExit
    /\ UNCHANGED <<txPath, uploaded_file, txRemote, txPolls, txCalls, txWarned>>
    /\ UNCHANGED <<txCost, estimates, nonTranscribeVars>>

\* download_youtube_audio: yt-dlp's extract_info raises or leaves an .mp3
\* file, which passes validate_file.
TxDownload(ok) ==
    /\ txPc = "download"
    /\ txCalls' = Append(txCalls, "extract_info")
    /\ IF ok THEN txPc' = "check_api" /\ UNCHANGED txExit ELSE TxFail
    /\ UNCHANGED <<txApp, txArgs, txPath, uploaded_file, txRemote, txPolls, txWarned>>
    /\ UNCHANGED <<txCost, estimates, nonTranscribeVars>>

\* check_api_enabled: model.count_tokens("Test") answers, reports that the
\* API is not enabled, or raises.
TxCheckApi(result) ==
    /\ txPc = "check_api"
    /\ txCalls' = Append(txCalls, "count_tokens")
    /\ IF result = "enabled"
       THEN /\ txPc' = IF /\ txApp = "cli"
                          /\ txArgs.start # << >> \/ txArgs.end # << >>
                          /\ ~txArgs.use_timestamps
                       THEN "trim" ELSE "choose"
            /\ UNCHANGED txExit
       ELSE IF result = "disabled" THEN TxReject("api_disabled") ELSE TxFail
    /\ UNCHANGED <<txApp, txArgs, txPath, uploaded_file, txRemote, txPolls, txWarned>>
    /\ UNCHANGED <<txCost, estimates, nonTranscribeVars>>

\* CLI: trim_audio, then file_size_mb is taken from the trimmed file.
TxTrim(size) ==
    /\ txPc = "trim"
    /\ size <= txArgs.size
    /\ IF TrimRejects(txArgs.start, txArgs.end)
       THEN /\ size = txArgs.size
            /\ TxReject("bad_time")
            /\ UNCHANGED txArgs
       ELSE /\ txArgs' = [txArgs EXCEPT !.size = size]
            /\ txPc' = "choose"
            /\ UNCHANGED txExit
    /\ UNCHANGED <<txApp, txPath, uploaded_file, txRemote, txPolls, txCalls, txWarned>>
    /\ UNCHANGED <<txCost, estimates, nonTranscribeVars>>

\* The branch on the file size; the inline branch reads the file at once.
TxChoose(readOk) ==
    /\ txPc = "choose"
    /\ IF UseUpload(txApp, txArgs)
       THEN /\ txPath' = "upload"
            /\ txPc' = "upload_file"
            /\ UNCHANGED txExit
       ELSE /\ txPath' = "inline"
            /\ IF readOk THEN txPc' = "transcribe" /\ UNCHANGED txExit ELSE TxFail
    /\ UNCHANGED <<txApp, txArgs, uploaded_file, txRemote, txPolls, txCalls, txWarned>>
    /\ UNCHANGED <<txCost, estimates, nonTranscribeVars>>

\* upload_file: genai.upload_file raises or returns a file in some state.
TxUploadFile(state) ==
    /\ txPc = "upload_file"
    /\ txCalls' = Append(txCalls, "upload_file")
    /\ IF state = "raises"
       THEN TxFail /\ UNCHANGED txRemote
       ELSE txRemote' = state /\ txPc' = "poll" /\ UNCHANGED txExit
    /\ UNCHANGED <<txApp, txArgs, txPath, uploaded_file, txPolls, txWarned>>
    /\ UNCHANGED <<txCost, estimates, nonTranscribeVars>>

\* upload_file: one turn of the loop while the state is PROCESSING.
TxPoll(state) ==
    /\ txPc = "poll"
    /\ txRemote = "PROCESSING"
    /\ txPolls < MaxPolls
    /\ txPolls + 1 < MaxPolls \/ state # "PROCESSING"
    /\ txPolls' = txPolls + 1
    /\ txCalls' = Append(txCalls, "get_file")
    /\ txRemote' = state
    /\ UNCHANGED <<txApp, txArgs, txPc, txPath, uploaded_file, txWarned, txExit>>
    /\ UNCHANGED <<txCost, estimates, nonTranscribeVars>>

\* Variant of TxUploadDone that returns the file whatever state ended the loop.
TxUploadDoneUnchecked ==
    /\ txPc = "poll"
    /\ txRemote # "PROCESSING"
    /\ uploaded_file' = "file" /\ txPc' = "transcribe" /\ UNCHANGED txExit
    /\ UNCHANGED <<txApp, txArgs, txPath, txRemote, txPolls, txCalls, txWarned>>
    /\ UNCHANGED <<txCost, estimates, nonTranscribeVars>>

\* upload_file: after the loop, raise unless ACTIVE; the caller then binds
\* the returned file to uploaded_file.
TxUploadDone ==
    /\ txPc = "poll"
    /\ txRemote # "PROCESSING"
    /\ IF txRemote = "ACTIVE"
       THEN uploaded_file' = "file" /\ txPc' = "transcribe" /\ UNCHANGED txExit
       ELSE TxFail /\ UNCHANGED uploaded_file
    /\ UNCHANGED <<txApp, txArgs, txPath, txRemote, txPolls, txCalls, txWarned>>
    /\ UNCHANGED <<txCost, estimates, nonTranscribeVars>>

\* transcriber.transcribe, whose estimate is added to total_cost
TxTranscribe(ok, text, cost) ==
    /\ txPc = "transcribe"
    /\ txCalls' = Append(txCalls, "transcribe")
    /\ IF ok
       THEN /\ txPc' = IF txApp = "cli" THEN "write_output"
                       ELSE IF txArgs.summary THEN "summarize" ELSE "cleanup"
            /\ transcription' = text
            /\ total_cost' = total_cost + cost
            /\ estimates' = Append(estimates, cost)
            /\ UNCHANGED txExit
       ELSE /\ TxFail
            /\ UNCHANGED <<transcription, total_cost, estimates>>
    /\ UNCHANGED <<txApp, txArgs, txPath, uploaded_file, txRemote, txPolls, txWarned>>
    /\ UNCHANGED <<estimated_cost, summarized, nonTranscribeVars>>

\* CLI: the transcription is written to args.output.
TxWriteOutput(ok) ==
    /\ txPc = "write_output"
    /\ IF ok
       THEN /\ txPc' = IF txArgs.summary THEN "summarize" ELSE "cleanup"
            /\ UNCHANGED txExit
       ELSE TxFail
    /\ UNCHANGED <<txApp, txArgs, txPath, uploaded_file, txRemote, txPolls, txCalls, txWarned>>
    /\ UNCHANGED <<txCost, estimates, nonTranscribeVars>>

\* Variant of TxSummarize that leaves the estimate of the summary out of the total.
TxSummarizeUncounted(ok, cost) ==
    /\ txPc = "summarize"
    /\ txCalls' = Append(txCalls, "summarize")
    /\ summarized' = transcription
    /\ IF ok
       THEN /\ txPc' = IF txApp = "cli" THEN "write_summary" ELSE "cleanup"
            /\ estimates' = Append(estimates, cost)
            /\ UNCHANGED <<txExit, total_cost>>
       ELSE /\ TxFail
            /\ UNCHANGED <<total_cost, estimates>>
    /\ UNCHANGED <<txApp, txArgs, txPath, uploaded_file, txRemote, txPolls, txWarned>>
    /\ UNCHANGED <<estimated_cost, transcription, nonTranscribeVars>>

\* transcriber.summarize(transcription), whose estimate is added to total_cost
TxSummarize(ok, cost) ==
    /\ txPc = "summarize"
    /\ txCalls' = Append(txCalls, "summarize")
    /\ summarized' = transcription
    /\ IF ok
       THEN /\ txPc' = IF txApp = "cli" THEN "write_summary" ELSE "cleanup"
            /\ total_cost' = total_cost + cost
            /\ estimates' = Append(estimates, cost)
            /\ UNCHANGED txExit
       ELSE /\ TxFail
            /\ UNCHANGED <<total_cost, estimates>>
    /\ UNCHANGED <<txApp, txArgs, txPath, uploaded_file, txRemote, txPolls, txWarned>>
    /\ UNCHANGED <<estimated_cost, transcription, nonTranscribeVars>>

\* CLI: the summary is written to args.summary.
TxWriteSummary(ok) ==
    /\ txPc = "write_summary"
    /\ IF ok THEN txPc' = "cleanup" /\ UNCHANGED txExit ELSE TxFail
    /\ UNCHANGED <<txApp, txArgs, txPath, uploaded_file, txRemote, txPolls, txCalls, txWarned>>
    /\ UNCHANGED <<txCost, estimates, nonTranscribeVars>>

\* The cleanup statement at the end of the try body, then the success result.
\* cleanup_file catches a failing delete_file and prints a warning.
TxCleanup(deleteOk) ==
    /\ txPc = "cleanup"
    /\ IF uploaded_file # "None" /\ ~txArgs.keep_uploaded
       THEN /\ txCalls' = Append(txCalls, "delete_file")
            /\ txRemote' = IF deleteOk THEN "deleted" ELSE txRemote
            /\ txWarned' = ~deleteOk
       ELSE UNCHANGED <<txCalls, txRemote, txWarned>>
    /\ txPc' = "done"
    /\ txExit' = "success"
    /\ estimated_cost' = Round4(total_cost)
    /\ UNCHANGED <<txApp, txArgs, txPath, uploaded_file, txPolls>>
    /\ UNCHANGED <<total_cost, transcription, summarized, estimates, nonTranscribeVars>>

TranscribeNext ==
    \/ \E app \in Apps : \E args \in ArgsOf(app) : TxBegin(app, args)
    \/ \E ok \in BOOLEAN : TxDownload(ok)
    \/ \E result \in {"enabled", "disabled", "raises"} : TxCheckApi(result)
    \/ \E size \in Sizes : TxTrim(size)
    \/ \E readOk \in BOOLEAN : TxChoose(readOk)
    \/ \E state \in {"raises", "PROCESSING", "ACTIVE", "FAILED"} : TxUploadFile(state)
    \/ \E state \in {"PROCESSING", "ACTIVE", "FAILED"} : TxPoll(state)
    \/ TxUploadDone
    \/ \E ok \in BOOLEAN, text \in Transcriptions, cost \in Costs : TxTranscribe(ok, text, cost)
    \/ \E ok \in BOOLEAN : TxWriteOutput(ok)
    \/ \E ok \in BOOLEAN, cost \in Costs : TxSummarize(ok, cost)
    \/ \E ok \in BOOLEAN : TxWriteSummary(ok)
    \/ \E deleteOk \in BOOLEAN : TxCleanup(deleteOk)

TranscribeSpecInit ==
    TranscribeInit /\ GuardInit /\ ToolIdle /\ UsageIdle /\ TranslateIdle /\ SpeechIdle /\ SessionIdle

TranscribeSpec == TranscribeSpecInit /\ [][TranscribeNext]_vars

\* upload_file runs in the thread of the request: the loop head is evaluated
\* again after every sleep, and the statement after the loop runs once the
\* loop is left.
TranscribeFairness ==
    /\ WF_vars(\E state \in {"PROCESSING", "ACTIVE", "FAILED"} : TxPoll(state))
    /\ WF_vars(TxUploadDone)

TranscribeFairSpec == TranscribeSpec /\ TranscribeFairness

\* Claim side: the limit of the program serving the request, in bytes.
InlineThreshold == IF txApp = "web" THEN WEB_INLINE_LIMIT_MB * MB ELSE MAX_FILE_SIZE_MB * MB

\* C19: the inline-or-upload choice is determined by the file size, the
\* threshold and the override flags alone: without an override a file of at
\* most the threshold goes inline and a larger one is uploaded; force-upload
\* sends any file to the upload path, force-inline alone sends any file
\* inline, and with both flags the upload path is taken.  The file content
\* plays no part.
C19_PathChoiceBySizeAndFlags ==
    txPath # "none" =>
        /\ (~txArgs.upload /\ ~txArgs.inline) =>
               (txPath = "inline" <=> txArgs.size <= InlineThreshold)
        /\ (txArgs.size <= InlineThreshold /\ ~txArgs.upload) => txPath = "inline"
        /\ (txArgs.size > InlineThreshold /\ ~txArgs.inline) => txPath = "upload"
        /\ txArgs.upload => txPath = "upload"
        /\ (txArgs.inline /\ ~txArgs.upload) => txPath = "inline"

\* A CLI request for a file of exactly the limit, with no flag, went inline.
C19_Witness ==
    /\ txApp = "cli"
    /\ txArgs.size = MAX_FILE_SIZE_MB * MB
    /\ ~txArgs.upload /\ ~txArgs.inline
    /\ txPath = "inline"

\* C32: upload_file hands a file to its caller only when the last state
\* it observed is ACTIVE, raises (the request fails, no file is bound)
\* when the loop ends in any other state, the transcription call of the
\* upload path is made only on a file observed ACTIVE, and, the service
\* leaving PROCESSING after finitely many polls, the polling loop ends.
C32_UploadPollsUntilReady ==
    /\ [][
          /\ uploaded_file' # uploaded_file =>
                (txPc = "poll" /\ txRemote = "ACTIVE" /\ uploaded_file' = "file")
          /\ (txPc = "poll" /\ txPc' # "poll" /\ txRemote # "ACTIVE") =>
                (/\ txRemote # "PROCESSING"
                 /\ txPc' = "done" /\ txExit' # "success"
                 /\ uploaded_file' = "None")
          /\ (txPath = "upload" /\ txCalls' # txCalls
                 /\ txCalls'[Len(txCalls')] = "transcribe") =>
                (uploaded_file = "file" /\ txRemote = "ACTIVE")
       ]_vars
    /\ (txPc = "poll") ~> (txPc # "poll")

\* A file that was still PROCESSING after the upload, became ACTIVE at a
\* later poll and was transcribed.
C32_Witness ==
    /\ txPath = "upload" /\ txPolls = MaxPolls
    /\ uploaded_file = "file" /\ txRemote = "ACTIVE"
    /\ txCalls[Len(txCalls)] = "transcribe"

\* C20: when a request that bound an uploaded handle and was not told to keep
\* it has finished, a deletion of the handle has been issued, whichever way
\* the request ended.
C20_UploadedHandleDeleted ==
    (txExit # "none" /\ uploaded_file # "None" /\ ~txArgs.keep_uploaded) =>
        (\E i \in 1..Len(txCalls) : txCalls[i] = "delete_file")

\* Claim side: the ways a request ends that reject its input.
ValidationRejections == {"bad_url", "bad_format", "bad_time"}

\* C23: a run that ends in the rejection of its input (URL, file suffix, time
\* range) has made no call to the video downloader or to the generative API.
C23_ValidationBeforeExternalCalls ==
    txExit \in ValidationRejections => txCalls = << >>

\* C24: a process started without its API key serves no request: the CLI
\* exits before any call, and the web application runs no request handler.
C24_NoRequestWithoutKey ==
    (txApp # "none" /\ ~txArgs.key) =>
        (txApp = "cli" /\ txExit = "no_key" /\ txCalls = << >>)

\* Claim side: the places of a call in the log of external calls.
Places(call) == {i \in 1..Len(txCalls) : txCalls[i] = call}

\* Claim side: the sum of a sequence of cost estimates.
RECURSIVE Sum(_)
Sum(costs) == IF costs = << >> THEN 0 ELSE Head(costs) + Sum(Tail(costs))

\* Claim side: a successful request made one transcription call and, exactly
\* when a summary was asked for, one summarization call, later and over the
\* text the transcription call returned; a deletion came after both.
OneCallEach ==
    /\ Cardinality(Places("transcribe")) = 1
    /\ Cardinality(Places("summarize")) = IF txArgs.summary THEN 1 ELSE 0
    /\ \A i \in Places("transcribe"), j \in Places("summarize") : i < j
    /\ txArgs.summary => summarized = transcription
    /\ \A d \in Places("delete_file"), i \in Places("transcribe") \cup Places("summarize") :
           i < d

\* C30 as stated: in addition the total a successful request reports is the
\* sum of the estimates of its calls.
C30_ReportedCostIsSum ==
    txExit = "success" => (OneCallEach /\ estimated_cost = Sum(estimates))

\* C30: a successful request made one transcription call and, exactly when a
\* summary was asked for, one summarization call after it over its result; a
\* deletion came after both; total_cost is the sum of the estimates of the
\* calls made, and the total reported is that sum rounded to four decimals.
C30_CallsAndRoundedCost ==
    txExit = "success" =>
        /\ OneCallEach
        /\ total_cost = Sum(estimates)
        /\ estimated_cost = Round4(Sum(estimates))

\* A request with a summary ended well after an upload and a deletion, with
\* two estimates whose sum is not a multiple of a ten-thousandth.
C30_Witness ==
    /\ txExit = "success"
    /\ txArgs.summary
    /\ Places("delete_file") # {}
    /\ Len(estimates) = 2
    /\ Sum(estimates) # Round4(Sum(estimates))


(***************************************************************************)
(* The output-token count of a generate_content call                       *)
(* (gemini-3-transcribe/gemini_transcribe_cli.py, transcribe lines 317-327 *)
(* and summarize lines 362-370, the same code twice).                      *)
(***************************************************************************)

\* The largest candidates_token_count and the longest output text followed.
MaxCount == 2

MaxTextLen == 9

\* What hasattr(response, 'usage_metadata') and the read of the count do: the
\* response has no such attribute, has it, or the access raises.
MetadataKinds == {"absent", "present", "raises"}

Responses ==
    [usage_metadata : MetadataKinds,
     candidates_token_count : -1..MaxCount,
     text : UNION {[1..n -> {"a"}] : n \in 0..MaxTextLen}]

\* The possible responses: only a usage_metadata that is there has a count.
ReturnedResponses ==
    {r \in Responses :
        r.usage_metadata # "present" => r.candidates_token_count = -1}

\* output_tokens = 0; try: if hasattr(...): output_tokens = getattr(...,
\* 'candidates_token_count', 0); except Exception: len(response.text) // 4
OutputTokens(r) ==
    IF r.usage_metadata = "raises" THEN Len(r.text) \div 4
    ELSE IF r.usage_metadata = "present"
    THEN IF r.candidates_token_count = -1 THEN 0 ELSE r.candidates_token_count
    ELSE 0

UsageInit == UsageIdle

\* model.generate_content returns in transcribe or in summarize.
UsageCall(call, r) ==
    /\ usPc = "idle"
    /\ usCall' = call
    /\ usResponse' = r
    /\ usPc' = "returned"
    /\ UNCHANGED <<output_tokens, nonUsageVars>>

\* The try block after the call.
UsageRecord ==
    /\ usPc = "returned"
    /\ output_tokens' = OutputTokens(usResponse)
    /\ usPc' = "recorded"
    /\ UNCHANGED <<usCall, usResponse, nonUsageVars>>

UsageNext ==
    \/ \E call \in {"transcribe", "summarize"}, r \in ReturnedResponses : UsageCall(call, r)
    \/ UsageRecord

UsageSpecInit ==
    UsageInit /\ GuardInit /\ ToolIdle /\ TranslateIdle /\ SpeechIdle /\ TranscribeIdle
    /\ SessionIdle

UsageSpec == UsageSpecInit /\ [][UsageNext]_vars

\* C31: the count recorded is the count of the response's usage metadata
\* when the response carries usage metadata with a count, and otherwise
\* the length of the output text divided by four, rounded down; so it is
\* not zero for an output of four characters or more that has no usage
\* metadata.
C31_OutputTokensRecorded ==
    usPc = "recorded" =>
        /\ output_tokens =
               IF usResponse.usage_metadata = "present"
                     /\ usResponse.candidates_token_count # -1
               THEN usResponse.candidates_token_count
               ELSE Len(usResponse.text) \div 4
        /\ (usResponse.usage_metadata # "present" /\ Len(usResponse.text) >= 4)
               => output_tokens # 0

(***************************************************************************)
(* Live translation sessions (chirp2-translator/app.py).                   *)
(*                                                                         *)
(* Socket.IO runs each event handler on a thread of its own, so a handler  *)
(* that sleeps (start_session, stop_session, disconnect) is two steps and  *)
(* other handlers and the workers run in between.  A client sends events   *)
(* only while connected, starts only while no start of its own is in its   *)
(* wait, and stops only a session it has started.                          *)
(***************************************************************************)

MaxChunks == 2

MaxResults == 3

MaxSyntheses == 2

\* The stop requests of a connection handled after its record is gone.
MaxLateStops == 1

\* The start requests handled for an id that has no record.
MaxLateStarts == 1

\* A notification of a worker as the client sees it; n names the recognition
\* result it reports (0 for an error notification).
Notification(event, is_final, n, translation) ==
    [event |-> event, is_final |-> is_final, n |-> n, translation |-> translation]

\* emit(event, ...) inside a handler of connection s
EmitFromHandler(s, event) ==
    emitted' = [emitted EXCEPT ![s].handlers[event] = @ + 1]

\* socketio.emit without a room: the notification goes to every connection.
EmitToAll(s, w, e) ==
    emitted' = [r \in SIDs |-> [emitted[r] EXCEPT !.workers[w] = Append(@, e)]]

\* socketio.emit(..., room=session_id) in the thread w
EmitFromWorker(s, w, e) ==
    emitted' = [emitted EXCEPT ![s].workers[w] = Append(@, e)]

\* The runs explored: one client that starts again and again; one client
\* that sends audio around a single start; one client whose external calls
\* fail and who disconnects; two clients side by side; two clients that
\* disconnect; one client whose stream holds results without alternatives;
\* one client that asks for speech; one client whose files are downloaded;
\* one client whose start requests also arrive before its connect or after
\* its disconnect.
Workloads ==
    {[NoLoad EXCEPT !.clients = {"A"}, !.starts = MaxStarts, !.results = 1,
                    !.stops = TRUE],
     [NoLoad EXCEPT !.clients = {"A"}, !.starts = 1, !.chunks = MaxChunks,
                    !.results = 2, !.stops = TRUE],
     [NoLoad EXCEPT !.clients = {"A"}, !.starts = 1, !.chunks = 1,
                    !.results = MaxResults, !.stops = TRUE,
                    !.disconnects = TRUE, !.failures = TRUE],
     [NoLoad EXCEPT !.clients = SIDs, !.starts = Cardinality(SIDs), !.chunks = 1,
                    !.results = 2],
     [NoLoad EXCEPT !.clients = SIDs, !.starts = Cardinality(SIDs),
                    !.results = 1, !.disconnects = TRUE],
     [NoLoad EXCEPT !.clients = {"A"}, !.starts = 1, !.results = 2,
                    !.stops = TRUE, !.empties = TRUE],
     [NoLoad EXCEPT !.clients = {"A"}, !.starts = 1, !.syntheses = MaxSyntheses,
                    !.disconnects = TRUE, !.failures = TRUE],
     [NoLoad EXCEPT !.clients = {"A"}, !.starts = 1, !.chunks = 1, !.results = 1,
                    !.syntheses = 1, !.disconnects = TRUE, !.downloads = TRUE],
     [NoLoad EXCEPT !.clients = {"A"}, !.starts = 1, !.results = 1,
                    !.disconnects = TRUE, !.lateStarts = TRUE]}

SessionInit == SessionStart /\ load \in Workloads

handle_connect(s) ==
    /\ s \in load.clients
    /\ connState[s] = "new"
    /\ connState' = [connState EXCEPT ![s] = "open"]
    /\ sessions' = [sessions EXCEPT ![s] = NewSession]
    /\ EmitFromHandler(s, "connected")
    /\ UNCHANGED <<startPc, stopPc, discPc, workers, nextChunk, nextResult, sent, enqueued, due, finals>>
    /\ UNCHANGED <<laterVars, load, nonSessionVars>>

\* handle_disconnect up to thread.join(timeout=2)
handle_disconnect(s) ==
    /\ load.disconnects
    /\ connState[s] = "open"
    /\ discPc[s] = "idle"
    /\ sessions' = [sessions EXCEPT ![s].active = FALSE, ![s].stream_active = FALSE]
    /\ discPc' = [discPc EXCEPT ![s] = "joining"]
    /\ UNCHANGED <<connState, startPc, stopPc, workers, nextChunk, nextResult, emitted, sent,
                   enqueued, due, finals>>
    /\ UNCHANGED <<laterVars, load, nonSessionVars>>

\* handle_disconnect after the join returned or timed out: del sessions[sid]
handle_disconnect_joined(s) ==
    /\ discPc[s] = "joining"
    /\ connState' = [connState EXCEPT ![s] = "closed"]
    /\ discPc' = [discPc EXCEPT ![s] = "done"]
    /\ UNCHANGED <<sessions, startPc, stopPc, workers, nextChunk, nextResult, emitted, sent,
                   enqueued, due, finals>>
    /\ UNCHANGED <<laterVars, load, nonSessionVars>>

\* handle_start_session up to time.sleep(0.5): the record is reset and a new
\* thread is created and started, whatever the state of an earlier one.  For
\* an id that is not in the table sessions[session_id] raises KeyError before
\* anything is written, and the handler ends with an error notification.
handle_start_session(s) ==
    /\ startPc[s] = "idle"
    /\ IF connState[s] = "open"
       THEN /\ discPc[s] = "idle"
            /\ \E w \in 1..load.starts : workers[w].pc = "unborn"
            /\ LET w == CHOOSE v \in WorkerIds :
                            /\ workers[v].pc = "unborn"
                            /\ \A u \in WorkerIds : workers[u].pc = "unborn" => v <= u
               IN /\ sessions' = [sessions EXCEPT ![s] =
                         [active |-> TRUE, stream_active |-> TRUE, stream_thread |-> w,
                          audio_queue |-> << >>, pending_audio |-> << >>,
                          audio_chunks |-> << >>, original_text |-> << >>,
                          translated_text |-> << >>, tts_audio |-> 0,
                          source_language |-> StartData(w).source_language,
                          target_language |-> StartData(w).target_language,
                          show_timestamps |-> StartData(w).show_timestamps,
                          voice_gender |-> StartData(w).voice_gender]]
                  /\ workers' = [workers EXCEPT ![w] =
                         [NoWorker EXCEPT !.sid = s, !.pc = "spawned"]]
            /\ startPc' = [startPc EXCEPT ![s] = "sleeping"]
            /\ finals' = [finals EXCEPT ![s] = << >>]
            /\ synthesized' = [synthesized EXCEPT ![s] = 0]
            /\ UNCHANGED emitted
       ELSE /\ load.lateStarts
            /\ s \in load.clients
            /\ emitted[s].handlers["error"] < MaxLateStarts
            /\ EmitFromHandler(s, "error")
            /\ UNCHANGED <<sessions, workers, startPc, finals, synthesized>>
    /\ UNCHANGED <<connState, stopPc, discPc, nextChunk, nextResult, sent, enqueued, due>>
    /\ UNCHANGED <<tts, nextTts, stopsHandled, downloaded, load, nonSessionVars>>

\* Variant of handle_start_session_flush that reports the start as done
\* whether or not the record is still in the table.
handle_start_session_flush_unchecked(s) ==
    /\ startPc[s] = "sleeping"
    /\ startPc' = [startPc EXCEPT ![s] = "idle"]
    /\ sessions' = [sessions EXCEPT
           ![s].audio_queue = @ \o sessions[s].pending_audio,
           ![s].pending_audio = << >>]
    /\ enqueued' = [enqueued EXCEPT ![s] = @ \o sessions[s].pending_audio]
    /\ due' = [due EXCEPT ![s] = Len(sent[s])]
    /\ EmitFromHandler(s, "session_started")
    /\ UNCHANGED <<connState, stopPc, discPc, workers, nextChunk, nextResult, sent, finals>>
    /\ UNCHANGED <<laterVars, load, nonSessionVars>>

\* handle_start_session after the sleep: pending audio is put on the queue and
\* session_started is emitted; a record removed meanwhile raises KeyError,
\* which the handler reports as an error notification.
handle_start_session_flush(s) ==
    /\ startPc[s] = "sleeping"
    /\ startPc' = [startPc EXCEPT ![s] = "idle"]
    /\ IF connState[s] = "open"
       THEN /\ sessions' = [sessions EXCEPT
                   ![s].audio_queue = @ \o sessions[s].pending_audio,
                   ![s].pending_audio = << >>]
            /\ enqueued' = [enqueued EXCEPT ![s] = @ \o sessions[s].pending_audio]
            /\ due' = [due EXCEPT ![s] = Len(sent[s])]
            /\ EmitFromHandler(s, "session_started")
       ELSE /\ EmitFromHandler(s, "error")
            /\ UNCHANGED <<sessions, enqueued, due>>
    /\ UNCHANGED <<connState, stopPc, discPc, workers, nextChunk, nextResult, sent, finals>>
    /\ UNCHANGED <<laterVars, load, nonSessionVars>>

handle_audio_data(s) ==
    /\ connState[s] = "open"
    /\ discPc[s] = "idle"
    /\ nextChunk <= load.chunks
    /\ nextChunk' = nextChunk + 1
    /\ UNCHANGED nextResult
    /\ sent' = [sent EXCEPT ![s] = Append(@, nextChunk)]
    /\ IF sessions[s].stream_active
       THEN /\ sessions' = [sessions EXCEPT ![s].audio_chunks = Append(@, nextChunk),
                                            ![s].audio_queue = Append(@, nextChunk)]
            /\ enqueued' = [enqueued EXCEPT ![s] = Append(@, nextChunk)]
       ELSE /\ sessions' = [sessions EXCEPT ![s].audio_chunks = Append(@, nextChunk),
                                            ![s].pending_audio = Append(@, nextChunk)]
            /\ UNCHANGED enqueued
    /\ UNCHANGED <<connState, startPc, stopPc, discPc, workers, emitted, due, finals>>
    /\ UNCHANGED <<laterVars, load, nonSessionVars>>

\* handle_stop_session up to time.sleep(1.0); for an id that is not in the
\* table the whole handler, which only emits session_stopped.  A client stops
\* a session it has started, and its last stop may be handled after its
\* disconnect.
handle_stop_session(s) ==
    /\ load.stops
    /\ stopPc[s] = "idle"
    /\ IF connState[s] = "open"
       THEN /\ discPc[s] = "idle"
            /\ sessions[s].active \/ sessions[s].stream_active
            /\ sessions' = [sessions EXCEPT ![s].stream_active = FALSE]
            /\ stopPc' = [stopPc EXCEPT ![s] = "sleeping"]
            /\ UNCHANGED <<emitted, stopsHandled>>
       ELSE /\ connState[s] = "closed"
            /\ stopsHandled[s] < MaxLateStops
            /\ EmitFromHandler(s, "session_stopped")
            /\ stopsHandled' = [stopsHandled EXCEPT ![s] = @ + 1]
            /\ UNCHANGED <<sessions, stopPc>>
    /\ UNCHANGED <<connState, startPc, discPc, workers, nextChunk, nextResult, sent,
                   enqueued, due, finals>>
    /\ UNCHANGED <<ttsVars, downloaded, load, nonSessionVars>>

\* handle_stop_session after the sleep; a record removed meanwhile raises
\* KeyError before the emit.
handle_stop_session_wake(s) ==
    /\ stopPc[s] = "sleeping"
    /\ stopPc' = [stopPc EXCEPT ![s] = "idle"]
    /\ stopsHandled' = [stopsHandled EXCEPT ![s] = @ + 1]
    /\ IF connState[s] = "open"
       THEN /\ sessions' = [sessions EXCEPT ![s].active = FALSE]
            /\ EmitFromHandler(s, "session_stopped")
       ELSE UNCHANGED <<sessions, emitted>>
    /\ UNCHANGED <<connState, startPc, discPc, workers, nextChunk, nextResult, sent, enqueued,
                   due, finals>>
    /\ UNCHANGED <<ttsVars, downloaded, load, nonSessionVars>>

\* The transcript of the n-th result delivered, and the answer of the
\* translation service to a text; distinct results have distinct texts.
ResultLetter == <<"u", "v", "w", "x", "y", "z">>

Transcript(n) == <<ResultLetter[n]>>

Answer(text) == <<"T">> \o text \o <<" ">>

Live(w) == workers[w].pc \in {"streaming", "translating"}

\* The thread leaves streaming_transcribe; its call and generator go with it.
Exit(w) == workers' = [workers EXCEPT ![w].pc = "exited", ![w].gen = "ended"]

\* The thread starts: it returns if its id is not in the table.
streaming_transcribe(w) ==
    /\ workers[w].pc = "spawned"
    /\ IF connState[workers[w].sid] = "open"
       THEN workers' = [workers EXCEPT ![w].pc = "found"]
       ELSE Exit(w)
    /\ UNCHANGED <<connState, sessions, startPc, stopPc, discPc, nextChunk,
                   nextResult, emitted, sent, enqueued, due, finals>>
    /\ UNCHANGED <<laterVars, load, nonSessionVars>>

\* session = sessions[session_id], outside the try: the thread keeps the
\* record it finds and calls streaming_recognize with the request generator,
\* which yields the configuration; if the record has been removed since the
\* test, KeyError ends the thread.
streaming_transcribe_lookup(w) ==
    /\ workers[w].pc = "found"
    /\ IF connState[workers[w].sid] = "open"
       THEN workers' = [workers EXCEPT ![w].pc = "streaming", ![w].gen = "check",
                                       ![w].calls = @ + 1]
       ELSE workers' = [workers EXCEPT ![w].pc = "crashed", ![w].gen = "ended"]
    /\ UNCHANGED <<connState, sessions, startPc, stopPc, discPc, nextChunk,
                   nextResult, emitted, sent, enqueued, due, finals>>
    /\ UNCHANGED <<laterVars, load, nonSessionVars>>

\* The loop test of a generator that does not look at stream_active.
request_generator_check_blind(w) ==
    /\ Live(w)
    /\ workers[w].gen = "check"
    /\ workers' = [workers EXCEPT ![w].gen = "get"]
    /\ UNCHANGED <<connState, sessions, startPc, stopPc, discPc, nextChunk,
                   nextResult, emitted, sent, enqueued, due, finals>>
    /\ UNCHANGED <<laterVars, load, nonSessionVars>>

\* request_generator: the loop test on stream_active
request_generator_check(w) ==
    /\ Live(w)
    /\ workers[w].gen = "check"
    /\ workers' = [workers EXCEPT ![w].gen =
           IF sessions[workers[w].sid].stream_active THEN "get" ELSE "ended"]
    /\ UNCHANGED <<connState, sessions, startPc, stopPc, discPc, nextChunk,
                   nextResult, emitted, sent, enqueued, due, finals>>
    /\ UNCHANGED <<laterVars, load, nonSessionVars>>

\* request_generator: audio_queue.get(timeout=0.1) on the record's current
\* queue; a chunk is yielded to the stream, queue.Empty goes round the loop.
request_generator_get(w) ==
    /\ Live(w)
    /\ workers[w].gen = "get"
    /\ LET s == workers[w].sid
           q == sessions[s].audio_queue
       IN IF q # << >>
          THEN /\ sessions' = [sessions EXCEPT ![s].audio_queue = Tail(q)]
               /\ workers' = [workers EXCEPT ![w].gen = "check",
                                             ![w].forwarded = Append(@, Head(q))]
          ELSE /\ workers' = [workers EXCEPT ![w].gen = "check"]
               /\ UNCHANGED sessions
    /\ UNCHANGED <<connState, startPc, stopPc, discPc, nextChunk, nextResult,
                   emitted, sent, enqueued, due, finals>>
    /\ UNCHANGED <<laterVars, load, nonSessionVars>>

\* A non-final result that is also handed to translate.
interim_result_translated(w, s, n) ==
    /\ EmitFromWorker(s, w, Notification("transcription", FALSE, n, << >>))
    /\ workers' = [workers EXCEPT ![w].cur = n, ![w].last = "interim",
                                  ![w].translations = @ + 1]
    /\ UNCHANGED <<sessions, finals>>

\* The else branch of result.is_final: the interim result is emitted to the
\* session's room.
interim_result(w, s, n) ==
    /\ EmitFromWorker(s, w, Notification("transcription", FALSE, n, << >>))
    /\ workers' = [workers EXCEPT ![w].cur = n, ![w].last = "interim"]
    /\ UNCHANGED <<sessions, finals>>

\* Variant of dropped_result that goes on and emits the result as an interim
\* result.
dropped_result_emitted(w, n) ==
    /\ EmitFromWorker(workers[w].sid, w, Notification("transcription", FALSE, n, << >>))
    /\ workers' = [workers EXCEPT ![w].cur = n, ![w].last = "dropped"]
    /\ UNCHANGED <<sessions, finals>>

\* The break of the response loop, a result without alternatives, and the
\* branch of a final result up to the call of translate.
dropped_result(w, n) ==
    /\ workers' = [workers EXCEPT ![w].pc = "exited", ![w].gen = "ended",
                                  ![w].cur = n, ![w].last = "dropped"]
    /\ UNCHANGED <<sessions, emitted, finals>>

skipped_result(w, n) ==
    /\ workers' = [workers EXCEPT ![w].cur = n, ![w].last = "skipped"]
    /\ UNCHANGED <<sessions, emitted, finals>>

final_result(w, s, n) ==
    /\ workers' = [workers EXCEPT ![w].cur = n, ![w].last = "final",
                                  ![w].pc = "translating", ![w].translations = @ + 1]
    /\ sessions' = [sessions EXCEPT ![s].original_text = @ \o Transcript(n) \o <<" ">>]
    /\ finals' = [finals EXCEPT ![s] = Append(@, n)]
    /\ UNCHANGED emitted

\* The response loop taking the next response while a translation is pending.
streaming_transcribe_response_unordered(w, is_final, alternatives) ==
    /\ workers[w].pc \in {"streaming", "translating"}
    /\ nextResult <= load.results
    /\ alternatives \/ load.empties
    /\ nextResult' = nextResult + 1
    /\ LET s == workers[w].sid
           n == nextResult
       IN IF ~sessions[s].stream_active THEN dropped_result(w, n)
          ELSE IF ~alternatives THEN skipped_result(w, n)
          ELSE IF is_final THEN final_result(w, s, n)
          ELSE interim_result(w, s, n)
    /\ UNCHANGED <<connState, startPc, stopPc, discPc, nextChunk, sent, enqueued, due>>
    /\ UNCHANGED <<laterVars, load, nonSessionVars>>

\* The stream delivers its next response, holding one result: the loop breaks
\* if stream_active is false; a result without alternatives is passed over;
\* an interim result is emitted; a final result is appended to original_text
\* and handed to translate.
streaming_transcribe_response(w, is_final, alternatives) ==
    /\ workers[w].pc = "streaming"
    /\ nextResult <= load.results
    /\ alternatives \/ load.empties
    /\ nextResult' = nextResult + 1
    /\ LET s == workers[w].sid
           n == nextResult
       IN IF ~sessions[s].stream_active THEN dropped_result(w, n)
          ELSE IF ~alternatives THEN skipped_result(w, n)
          ELSE IF is_final THEN final_result(w, s, n)
          ELSE interim_result(w, s, n)
    /\ UNCHANGED <<connState, startPc, stopPc, discPc, nextChunk, sent, enqueued, due>>
    /\ UNCHANGED <<laterVars, load, nonSessionVars>>

\* The same step with a translate that lets the failure of the external call
\* out: the exception reaches except Exception and the thread ends.
streaming_transcribe_translate_raises(w, raises) ==
    /\ workers[w].pc = "translating"
    /\ raises => load.failures
    /\ LET s == workers[w].sid
           n == workers[w].cur
           translation == translate(Transcript(n), FALSE, Answer(Transcript(n))).result
       IN IF raises
          THEN /\ Exit(w)
               /\ EmitFromWorker(s, w, Notification("error", FALSE, 0, << >>))
               /\ UNCHANGED sessions
          ELSE /\ sessions' = [sessions EXCEPT ![s].translated_text = @ \o translation \o <<" ">>]
               /\ EmitFromWorker(s, w, Notification("transcription", TRUE, n, translation))
               /\ workers' = [workers EXCEPT ![w].pc = "streaming"]
    /\ UNCHANGED <<connState, startPc, stopPc, discPc, nextChunk, nextResult, sent,
                   enqueued, due, finals>>
    /\ UNCHANGED <<laterVars, load, nonSessionVars>>

\* translate returns; the translation is appended to translated_text and the
\* final notification is emitted.
streaming_transcribe_translated(w, raises) ==
    /\ workers[w].pc = "translating"
    /\ raises => load.failures
    /\ LET s == workers[w].sid
           n == workers[w].cur
           translation == translate(Transcript(n), raises, Answer(Transcript(n))).result
       IN /\ sessions' = [sessions EXCEPT ![s].translated_text = @ \o translation \o <<" ">>]
          /\ EmitFromWorker(s, w, Notification("transcription", TRUE, n, translation))
    /\ workers' = [workers EXCEPT ![w].pc = "streaming"]
    /\ UNCHANGED <<connState, startPc, stopPc, discPc, nextChunk, nextResult, sent,
                   enqueued, due, finals>>
    /\ UNCHANGED <<laterVars, load, nonSessionVars>>

\* The response stream ends once its input has ended.
streaming_transcribe_end(w) ==
    /\ workers[w].pc = "streaming"
    /\ workers[w].gen = "ended"
    /\ Exit(w)
    /\ UNCHANGED <<connState, sessions, startPc, stopPc, discPc, nextChunk,
                   nextResult, emitted, sent, enqueued, due, finals>>
    /\ UNCHANGED <<laterVars, load, nonSessionVars>>

\* The streaming call raises: except Exception emits an error notification.
streaming_transcribe_except(w) ==
    /\ load.failures
    /\ workers[w].pc = "streaming"
    /\ Exit(w)
    /\ EmitFromWorker(workers[w].sid, w, Notification("error", FALSE, 0, << >>))
    /\ UNCHANGED <<connState, sessions, startPc, stopPc, discPc, nextChunk,
                   nextResult, sent, enqueued, due, finals>>
    /\ UNCHANGED <<laterVars, load, nonSessionVars>>

\* The texts and voices speech is asked for; the voice is echoed as given.
TtsTexts == {<< >>, <<" ">>, <<"H">>}

VoiceGenders == {"FEMALE", "deep"}

\* base64.b64encode of the payload of synthesis n
Base64(n) == <<"base64", n>>

\* handle_request_tts up to the return of generate_speech; a request whose
\* text is blank returns at once.
handle_request_tts(s, text, voice_gender) ==
    /\ connState[s] = "open"
    /\ discPc[s] = "idle"
    /\ tts[s].pc = "idle"
    /\ nextTts <= load.syntheses
    /\ nextTts' = nextTts + 1
    /\ tts' = [tts EXCEPT ![s] =
           IF Strip(text) = << >>
           THEN [pc |-> "idle", n |-> nextTts, voice_gender |-> voice_gender,
                 outcome |-> "blank"]
           ELSE [pc |-> "synthesizing", n |-> nextTts, voice_gender |-> voice_gender,
                 outcome |-> "none"]]
    /\ UNCHANGED <<connState, sessions, startPc, stopPc, discPc, workers, nextChunk,
                   nextResult, emitted, sent, enqueued, due, finals>>
    /\ UNCHANGED <<synthesized, stopsHandled, downloaded, load, nonSessionVars>>

\* A failed synthesis that clears the stored audio.
handle_request_tts_done_clearing(s, raises) ==
    /\ tts[s].pc = "synthesizing"
    /\ raises => load.failures
    /\ IF raises
       THEN /\ EmitFromHandler(s, "error")
            /\ tts' = [tts EXCEPT ![s].pc = "idle", ![s].outcome = "failed"]
            /\ sessions' = [sessions EXCEPT ![s].tts_audio = 0]
            /\ UNCHANGED synthesized
       ELSE /\ sessions' = [sessions EXCEPT ![s].tts_audio =
                   IF connState[s] = "open" THEN tts[s].n ELSE @]
            /\ emitted' = [emitted EXCEPT ![s].tts_audio = Append(@,
                   [audio |-> Base64(tts[s].n), format |-> "mp3",
                    voice_gender |-> tts[s].voice_gender])]
            /\ tts' = [tts EXCEPT ![s].pc = "idle", ![s].outcome = "ok"]
            /\ synthesized' = [synthesized EXCEPT ![s] = tts[s].n]
    /\ UNCHANGED <<connState, startPc, stopPc, discPc, workers, nextChunk,
                   nextResult, sent, enqueued, due, finals>>
    /\ UNCHANGED <<nextTts, stopsHandled, downloaded, load, nonSessionVars>>

\* generate_speech returns or raises: the payload is stored if the record is
\* still in the table and is emitted as tts_audio to the room of the
\* connection; an exception is reported as an error notification.
handle_request_tts_done(s, raises) ==
    /\ tts[s].pc = "synthesizing"
    /\ raises => load.failures
    /\ IF raises
       THEN /\ EmitFromHandler(s, "error")
            /\ tts' = [tts EXCEPT ![s].pc = "idle", ![s].outcome = "failed"]
            /\ UNCHANGED <<sessions, synthesized>>
       ELSE /\ sessions' = [sessions EXCEPT ![s].tts_audio =
                   IF connState[s] = "open" THEN tts[s].n ELSE @]
            /\ emitted' = [emitted EXCEPT ![s].tts_audio = Append(@,
                   [audio |-> Base64(tts[s].n), format |-> "mp3",
                    voice_gender |-> tts[s].voice_gender])]
            /\ tts' = [tts EXCEPT ![s].pc = "idle", ![s].outcome = "ok"]
            /\ synthesized' = [synthesized EXCEPT ![s] = tts[s].n]
    /\ UNCHANGED <<connState, startPc, stopPc, discPc, workers, nextChunk,
                   nextResult, sent, enqueued, due, finals>>
    /\ UNCHANGED <<nextTts, stopsHandled, downloaded, load, nonSessionVars>>

DownloadKinds == {"audio", "text", "translation", "tts"}

\* download_audio, download_text, download_translation, download_tts_audio:
\* the answer to GET /api/download/<s>/<kind>.
Download(s, kind) ==
    IF connState[s] # "open" THEN "404"
    ELSE CASE kind = "audio" ->
                  IF sessions[s].audio_chunks = << >> THEN "404" ELSE "attachment"
           [] kind = "text" -> "attachment"
           [] kind = "translation" ->
                  IF Strip(sessions[s].translated_text) = << >> THEN "404" ELSE "attachment"
           [] kind = "tts" ->
                  IF sessions[s].tts_audio = 0 THEN "404" ELSE "attachment"

download(s, kind) ==
    /\ load.downloads
    /\ downloaded' = [sid |-> s, kind |-> kind, status |-> Download(s, kind)]
    /\ downloaded' # downloaded
    /\ UNCHANGED <<connState, sessions, startPc, stopPc, discPc, workers, nextChunk,
                   nextResult, emitted, sent, enqueued, due, finals>>
    /\ UNCHANGED <<ttsVars, stopsHandled, load, nonSessionVars>>

SessionNext ==
    \/ \E s \in SIDs : handle_connect(s)
    \/ \E s \in SIDs : handle_disconnect(s)
    \/ \E s \in SIDs : handle_disconnect_joined(s)
    \/ \E s \in SIDs : handle_start_session(s)
    \/ \E s \in SIDs : handle_start_session_flush(s)
    \/ \E s \in SIDs : handle_audio_data(s)
    \/ \E s \in SIDs : handle_stop_session(s)
    \/ \E s \in SIDs : handle_stop_session_wake(s)
    \/ \E w \in WorkerIds : streaming_transcribe(w)
    \/ \E w \in WorkerIds : streaming_transcribe_lookup(w)
    \/ \E w \in WorkerIds : request_generator_check(w)
    \/ \E w \in WorkerIds : request_generator_get(w)
    \/ \E w \in WorkerIds, is_final, alternatives \in BOOLEAN :
           streaming_transcribe_response(w, is_final, alternatives)
    \/ \E w \in WorkerIds, raises \in BOOLEAN : streaming_transcribe_translated(w, raises)
    \/ \E w \in WorkerIds : streaming_transcribe_end(w)
    \/ \E w \in WorkerIds : streaming_transcribe_except(w)
    \/ \E s \in SIDs, text \in TtsTexts, voice_gender \in VoiceGenders :
           handle_request_tts(s, text, voice_gender)
    \/ \E s \in SIDs, raises \in BOOLEAN : handle_request_tts_done(s, raises)
    \/ \E s \in SIDs, kind \in DownloadKinds : download(s, kind)

SessionSpecInit ==
    SessionInit /\ GuardInit /\ ToolIdle /\ UsageIdle /\ TranslateIdle /\ SpeechIdle /\ TranscribeIdle

SessionSpec == SessionSpecInit /\ [][SessionNext]_vars

\* The operating system schedules every thread, queue.get returns or times
\* out, a translate call returns, and the response stream ends once its input
\* has ended.
SessionFairness ==
    \A w \in WorkerIds :
        /\ WF_vars(streaming_transcribe(w))
        /\ WF_vars(streaming_transcribe_lookup(w))
        /\ WF_vars(request_generator_check(w))
        /\ WF_vars(request_generator_get(w))
        /\ WF_vars(\E raises \in BOOLEAN : streaming_transcribe_translated(w, raises))
        /\ WF_vars(streaming_transcribe_end(w))

\* The fair runs are those of a single client.
SessionFairSpecInit ==
    /\ SessionStart
    /\ load \in {l \in Workloads : Cardinality(l.clients) = 1}
    /\ GuardInit /\ ToolIdle /\ UsageIdle /\ TranslateIdle /\ SpeechIdle /\ TranscribeIdle

SessionFairSpec == SessionFairSpecInit /\ [][SessionNext]_vars /\ SessionFairness

\* Claim side: a worker thread that is alive and whose request generator is
\* still in its loop over the session's audio queue.
Consuming(w) ==
    /\ workers[w].pc \in {"streaming", "translating"}
    /\ workers[w].gen \in {"check", "get"}

\* C11: each session has at most one worker alive and consuming its audio
\* queue at any time, whatever the sequence of start_session, stop_session
\* and audio_data events.
C11_OneWorkerPerSession ==
    \A s \in SIDs :
        Cardinality({w \in WorkerIds : workers[w].sid = s /\ Consuming(w)}) <= 1

\* Claim side: the elements of a sequence that belong to a set, in order.
RECURSIVE Restrict(_, _)
Restrict(seq, set) ==
    IF seq = << >> THEN << >>
    ELSE IF Head(seq) \in set THEN <<Head(seq)>> \o Restrict(Tail(seq), set)
    ELSE Restrict(Tail(seq), set)

\* C12: once session_started has been emitted, the chunks the session had
\* received by then are on the record of what was put on its audio queue
\* exactly once each and in the order received.
C12_EarlyAudioReplayedOnce ==
    \A s \in SIDs :
        Restrict(enqueued[s], {sent[s][i] : i \in 1..due[s]}) = SubSeq(sent[s], 1, due[s])

\* Claim side: the transcripts of a sequence of results, each followed by a
\* space, as original_text accumulates them.
RECURSIVE Originals(_)
Originals(ns) ==
    IF ns = << >> THEN << >>
    ELSE Transcript(Head(ns)) \o <<" ">> \o Originals(Tail(ns))

\* Claim side: text is made of one translation (the service's answer or the
\* error placeholder) per result of ns, in that order, each followed by a space.
RECURSIVE IsTranslationsOf(_, _)
IsTranslationsOf(text, ns) ==
    IF ns = << >> THEN text = << >>
    ELSE \E t \in {Strip(Answer(Transcript(Head(ns)))), TranslationError} :
            /\ Len(text) >= Len(t) + 1
            /\ SubSeq(text, 1, Len(t) + 1) = t \o <<" ">>
            /\ IsTranslationsOf(SubSeq(text, Len(t) + 2, Len(text)), Tail(ns))

\* C13: original_text holds every final segment accepted since the start
\* exactly once and in arrival order, and translated_text holds the
\* translations of the first of those segments, in the same order.
C13_TextsHoldFinalsInOrder ==
    \A s \in SIDs :
        /\ sessions[s].original_text = Originals(finals[s])
        /\ \E k \in 0..Len(finals[s]) :
               IsTranslationsOf(sessions[s].translated_text, SubSeq(finals[s], 1, k))

\* Claim side: the result numbers of the transcription notifications of a
\* log, in the order of the log.
RECURSIVE ResultsOf(_)
ResultsOf(log) ==
    IF log = << >> THEN << >>
    ELSE IF Head(log).event = "transcription"
         THEN <<Head(log).n>> \o ResultsOf(Tail(log))
         ELSE ResultsOf(Tail(log))

Increasing(ns) == \A i, j \in 1..Len(ns) : i < j => ns[i] < ns[j]

\* C14: the transcription notifications a recognition stream gives rise to
\* reach the session's room in the order in which the stream produced the
\* results; a final result waiting for its translation is not overtaken by
\* a later result of the stream.
C14_NotificationsInStreamOrder ==
    \A s \in SIDs, w \in WorkerIds : Increasing(ResultsOf(emitted[s].workers[w]))

\* A final notification was emitted and then an interim one of the same stream.
C14_Witness ==
    \E s \in SIDs, w \in WorkerIds :
        LET log == emitted[s].workers[w]
        IN /\ Len(log) >= 2
           /\ log[1].event = "transcription" /\ log[1].is_final
           /\ log[2].event = "transcription" /\ ~log[2].is_final

\* C18: a translate call that fails does not end the worker: whenever a
\* worker leaves its translate call it is back in the response loop, the
\* translation it got (the service's answer, or the error placeholder when
\* the call failed) has been appended to translated_text, and the final
\* notification of that segment has been emitted with it.
C18_TranslateFailureKeepsWorker ==
    [][\A w \in WorkerIds :
          (workers[w].pc = "translating" /\ workers'[w].pc # "translating") =>
              LET s == workers[w].sid
                  log == emitted'[s].workers[w]
                  e == log[Len(log)]
              IN /\ workers'[w].pc = "streaming"
                 /\ log = Append(emitted[s].workers[w], e)
                 /\ e.event = "transcription" /\ e.is_final /\ e.n = workers[w].cur
                 /\ e.translation \in {Strip(Answer(Transcript(e.n))), TranslationError}
                 /\ sessions'[s].translated_text =
                        sessions[s].translated_text \o e.translation \o <<" ">>]_vars

\* A final notification carried the placeholder and the same worker emitted
\* the notification of a later result.
C18_Witness ==
    \E s \in SIDs, w \in WorkerIds :
        LET log == emitted[s].workers[w]
        IN \E i, j \in 1..Len(log) :
              /\ i < j
              /\ log[i].is_final /\ log[i].translation = TranslationError
              /\ log[j].event = "transcription"
              /\ Restrict(sessions[s].translated_text, {"[Translation error: "}) # << >>

\* Claim side: the error notifications in a worker's log.
RECURSIVE ErrorCount(_)
ErrorCount(log) ==
    IF log = << >> THEN 0
    ELSE (IF Head(log).event = "error" THEN 1 ELSE 0) + ErrorCount(Tail(log))

\* Claim side: worker w has been created and has not left streaming_transcribe.
WorkerAlive(w) == workers[w].pc \in {"spawned", "found", "streaming", "translating"}

\* C15: a worker whose generator has seen stream_active false forwards no
\* further chunk; a worker makes at most one streaming call, emits at most one
\* error notification, in the step in which it exits, and never comes back;
\* and if stream_active of its session stays false from some point on, the
\* worker eventually exits.
C15_WorkerTerminates ==
    /\ [][\A w \in WorkerIds :
             LET s == workers'[w].sid
                 before == IF workers[w].sid = "none" THEN << >>
                           ELSE emitted[workers[w].sid].workers[w]
                 after == IF s = "none" THEN << >> ELSE emitted'[s].workers[w]
             IN /\ workers[w].gen = "ended" =>
                       /\ workers'[w].gen = "ended"
                       /\ workers'[w].forwarded = workers[w].forwarded
                /\ workers[w].pc = "exited" => workers'[w].pc = "exited"
                /\ workers'[w].calls <= 1
                /\ ErrorCount(after) <= 1
                /\ ErrorCount(after) > ErrorCount(before) =>
                       (workers[w].pc # "exited" /\ workers'[w].pc = "exited")]_vars
    /\ \A s \in SIDs, w \in WorkerIds :
           <>[](~sessions[s].stream_active) =>
               <>[](workers[w].sid = s => ~WorkerAlive(w))

\* A worker forwarded a chunk, its session was stopped, and it has exited
\* without an error.
C15_Witness ==
    \E w \in WorkerIds :
        /\ workers[w].pc = "exited"
        /\ workers[w].calls = 1
        /\ Len(workers[w].forwarded) >= 1
        /\ ~sessions[workers[w].sid].stream_active
        /\ ErrorCount(emitted[workers[w].sid].workers[w]) = 0

\* Claim side: a step changed something that belongs to session a: its
\* place in the table, its record, one of its handlers, one of its workers,
\* the notifications in its room, or its history.
Changed(a) ==
    \/ connState'[a] # connState[a]
    \/ sessions'[a] # sessions[a]
    \/ startPc'[a] # startPc[a] \/ stopPc'[a] # stopPc[a] \/ discPc'[a] # discPc[a]
    \/ emitted'[a] # emitted[a]
    \/ sent'[a] # sent[a] \/ enqueued'[a] # enqueued[a] \/ due'[a] # due[a]
    \/ finals'[a] # finals[a]
    \/ tts'[a] # tts[a] \/ synthesized'[a] # synthesized[a]
    \/ stopsHandled'[a] # stopsHandled[a]
    \/ \E w \in WorkerIds : workers'[w] # workers[w] /\ workers'[w].sid = a

\* C16: a step of a handler or of a worker of one session leaves everything
\* of every other session unchanged, and the notifications a worker emits are
\* only in the room of its own session.
C16_SessionIsolation ==
    /\ [][\A a, b \in SIDs : (a # b /\ Changed(a)) => ~Changed(b)]_vars
    /\ [](\A s \in SIDs, w \in WorkerIds :
              emitted[s].workers[w] # << >> => workers[w].sid = s)

\* Two sessions are streaming side by side, each with a notification of its
\* own worker in its room.
C16_Witness ==
    \E a, b \in SIDs, v, w \in WorkerIds :
        /\ a # b
        /\ workers[v].sid = a /\ workers[w].sid = b
        /\ emitted[a].workers[v] # << >> /\ emitted[b].workers[w] # << >>
        /\ emitted[a].workers[w] = << >> /\ emitted[b].workers[v] = << >>
        /\ sessions[a].original_text # sessions[b].original_text

\* Claim side: the session_stopped notifications in the room of s.
Stopped(s) == emitted[s].handlers["session_stopped"]

\* C26: stop_session sets stream_active false before it waits and emits
\* nothing until the wait is over; the step in which a stop request finishes
\* emits exactly one session_stopped, also for a session that is not in the
\* table, and leaves a session that is in the table inactive, with
\* stream_active false when no start can run beside the stop.
C26_StopAnsweredOnce ==
    [][\A s \in SIDs :
          /\ (stopPc[s] = "idle" /\ stopPc'[s] = "sleeping") =>
                 /\ ~sessions'[s].stream_active
                 /\ sessions'[s].active = sessions[s].active
                 /\ emitted'[s] = emitted[s]
          /\ stopsHandled'[s] # stopsHandled[s] =>
                 /\ stopsHandled'[s] = stopsHandled[s] + 1
                 /\ emitted'[s].handlers["session_stopped"] = Stopped(s) + 1
                 /\ connState[s] = "open" =>
                        /\ ~sessions'[s].active
                        /\ load.starts = 1 => ~sessions'[s].stream_active
          /\ stopsHandled'[s] = stopsHandled[s] =>
                 emitted'[s].handlers["session_stopped"] = Stopped(s)]_vars

\* C27: disconnect first sets stream_active false and leaves the record in
\* the table; while it waits for the thread the removal can always be taken,
\* and the step that ends the wait removes the record; a removed record never
\* comes back, and no thread dies of a KeyError on the table.
C27_DisconnectTearsDown ==
    /\ [][\A s \in SIDs :
             /\ (discPc[s] = "idle" /\ discPc'[s] # "idle") =>
                    /\ discPc'[s] = "joining"
                    /\ ~sessions'[s].stream_active
                    /\ connState'[s] = connState[s]
             /\ (discPc[s] = "joining" /\ discPc'[s] # "joining") =>
                    connState'[s] = "closed"
             /\ connState[s] = "closed" => connState'[s] = "closed"]_vars
    /\ [](\A s \in SIDs : discPc[s] = "joining" => ENABLED handle_disconnect_joined(s))
    /\ [](\A w \in WorkerIds : workers[w].pc # "crashed")

\* Claim side: thread w took a result from the stream in this step.
Took(w) == workers'[w].cur # workers[w].cur

\* Claim side: the step of w left the texts of its session, its notifications
\* and its count of translation calls as they were.
NothingDone(w) ==
    LET s == workers'[w].sid
    IN /\ emitted'[s] = emitted[s]
       /\ sessions'[s].original_text = sessions[s].original_text
       /\ sessions'[s].translated_text = sessions[s].translated_text
       /\ workers'[w].translations = workers[w].translations

\* Claim side: the step of w emitted the interim notification of the result
\* it took and did nothing else.
InterimDone(w) ==
    LET s == workers'[w].sid
    IN /\ emitted'[s].workers[w] =
              Append(emitted[s].workers[w],
                     Notification("transcription", FALSE, workers'[w].cur, << >>))
       /\ sessions'[s].original_text = sessions[s].original_text
       /\ sessions'[s].translated_text = sessions[s].translated_text
       /\ workers'[w].translations = workers[w].translations
       /\ workers'[w].pc = workers[w].pc

\* Claim side: the step of w appended the result it took to original_text and
\* entered its one translation call, with nothing emitted yet.
FinalBegun(w) ==
    LET s == workers'[w].sid
    IN /\ sessions'[s].original_text =
              sessions[s].original_text \o Transcript(workers'[w].cur) \o <<" ">>
       /\ sessions'[s].translated_text = sessions[s].translated_text
       /\ workers'[w].translations = workers[w].translations + 1
       /\ workers'[w].pc = "translating"
       /\ emitted'[s] = emitted[s]

\* Claim side: the step in which the translation call of w returned appended
\* the translation to translated_text and emitted one final notification
\* with the result and that translation.
FinalEnded(w) ==
    LET s == workers[w].sid
        log == emitted'[s].workers[w]
        e == log[Len(log)]
    IN /\ log = Append(emitted[s].workers[w], e)
       /\ e = Notification("transcription", TRUE, workers[w].cur, e.translation)
       /\ sessions'[s].translated_text =
              sessions[s].translated_text \o e.translation \o <<" ">>
       /\ sessions'[s].original_text = sessions[s].original_text
       /\ workers'[w].translations = workers[w].translations
       /\ workers'[w].cur = workers[w].cur

\* C25 as stated: every result a worker takes is handled either as an interim
\* result (one interim notification, no translation call, texts unchanged)
\* or as a final result (appended to original_text, then one translation
\* call, then the translation appended and one notification with both).
C25_EveryResultHandled ==
    [][\A w \in WorkerIds :
          /\ Took(w) => (InterimDone(w) \/ FinalBegun(w))
          /\ (workers[w].pc = "translating" /\ workers'[w].pc # "translating") =>
                 FinalEnded(w)
          /\ workers'[w].translations # workers[w].translations => Took(w)]_vars

\* C25: a result that has an alternative and is taken while stream_active is
\* true is handled as stated, an interim one with one interim notification,
\* no translation call and no change of the texts, a final one appended to
\* original_text, then translated by one call, then the translation appended
\* and one notification emitted with both; a result without alternatives and
\* a result taken after stream_active became false leave the texts, the
\* notifications and the translation calls as they were.
C25_TakenResultsHandled ==
    [][\A w \in WorkerIds :
          /\ Took(w) =>
                 CASE workers'[w].last = "interim" -> InterimDone(w)
                   [] workers'[w].last = "final" -> FinalBegun(w)
                   [] OTHER -> NothingDone(w)
          /\ (workers[w].pc = "translating" /\ workers'[w].pc # "translating") =>
                 FinalEnded(w)
          /\ workers'[w].translations # workers[w].translations => Took(w)]_vars

\* A worker has translated a final result, emitted its notification, and
\* then passed over a result without alternatives.
C25_Witness ==
    \E w \in WorkerIds :
        LET log == emitted[workers[w].sid].workers[w]
        IN /\ workers[w].last = "skipped"
           /\ workers[w].pc = "streaming"
           /\ workers[w].translations = 1
           /\ Len(log) = 1 /\ log[1].is_final

\* Claim side: the error notifications the handlers emitted to the room of s.
HandlerErrors(s) == emitted[s].handlers["error"]

\* C29: the tts_audio of a session in the table is the payload of the latest
\* synthesis that succeeded since its last start, and None when there was
\* none; a request with blank text emits nothing and leaves it, a failed
\* synthesis emits one error notification and leaves it, and a successful
\* one stores its payload and emits one tts_audio notification with format
\* mp3 and the voice_gender of the request.
C29_StoredSpeechIsLatest ==
    /\ [](\A s \in SIDs : connState[s] = "open" => sessions[s].tts_audio = synthesized[s])
    /\ [][\A s \in SIDs :
             tts'[s] # tts[s] =>
                CASE tts'[s].outcome = "failed" ->
                         /\ emitted'[s].handlers["error"] = HandlerErrors(s) + 1
                         /\ emitted'[s].tts_audio = emitted[s].tts_audio
                         /\ sessions'[s].tts_audio = sessions[s].tts_audio
                  [] tts'[s].outcome = "ok" ->
                         /\ connState[s] = "open" => sessions'[s].tts_audio = tts[s].n
                         /\ emitted'[s].tts_audio =
                                Append(emitted[s].tts_audio,
                                       [audio |-> Base64(tts[s].n), format |-> "mp3",
                                        voice_gender |-> tts[s].voice_gender])
                         /\ emitted'[s].handlers = emitted[s].handlers
                  [] OTHER ->
                         /\ emitted'[s] = emitted[s]
                         /\ sessions'[s].tts_audio = sessions[s].tts_audio]_vars

\* A session holds the payload of its second request, in a deep voice, after
\* its first synthesis failed.
C29_Witness ==
    \E s \in SIDs :
        /\ connState[s] = "open"
        /\ sessions[s].tts_audio = 2
        /\ tts[s].outcome = "ok"
        /\ HandlerErrors(s) = 1
        /\ emitted[s].tts_audio =
               <<[audio |-> Base64(2), format |-> "mp3", voice_gender |-> "deep"]>>

\* Claim side: session s is not in the table, or it holds nothing of the
\* kind asked for.
Missing(s, kind) ==
    \/ connState[s] # "open"
    \/ kind = "audio" /\ sessions[s].audio_chunks = << >>
    \/ kind = "text" /\ sessions[s].original_text = << >>
    \/ kind = "translation" /\ sessions[s].translated_text = << >>
    \/ kind = "tts" /\ sessions[s].tts_audio = 0

\* C21: a download is answered with 404 when the session is not in the table
\* (never connected, or disconnected) or holds nothing of the kind asked
\* for, and with a file attachment otherwise.
C21_DownloadOr404 ==
    [][downloaded' # downloaded =>
          downloaded'.status =
              IF Missing(downloaded'.sid, downloaded'.kind) THEN "404" ELSE "attachment"]_vars


\* C37: in every record of the sessions table stream_active implies active,
\* whatever the interleaving of the connect, start_session, stop_session,
\* disconnect and audio_data handlers.
C37_StreamingImpliesActive ==
    \A s \in SIDs :
        (connState[s] = "open" /\ sessions[s].stream_active) => sessions[s].active


\* Claim side: the fields of the record of s that handle_start_session takes
\* from the request.
Options(rec) ==
    <<rec.source_language, rec.target_language, rec.show_timestamps, rec.voice_gender>>

\* Claim side: thread w is the thread of s and acts in this step.
WorkerStep(s, w) ==
    /\ workers[w].sid = s
    /\ sessions[s].stream_thread = w
    /\ workers'[w] # workers[w]

\* C33: inside a session original_text and translated_text are written only
\* by the session's worker, and the languages and the display options are
\* written only by the start handler, never while a worker of the session
\* is alive; so no write of a handler meets a read-modify-write of a worker.
C33_SingleWriter ==
    [][\A s \in SIDs :
          /\ (\/ sessions'[s].original_text # sessions[s].original_text
              \/ sessions'[s].translated_text # sessions[s].translated_text)
                 => \E w \in WorkerIds : WorkerStep(s, w)
          /\ Options(sessions'[s]) # Options(sessions[s]) =>
                 /\ startPc[s] = "idle" /\ startPc'[s] = "sleeping"
                 /\ \A w \in WorkerIds : workers[w].sid = s => ~WorkerAlive(w)
          /\ (startPc[s] = "idle" /\ startPc'[s] = "sleeping") =>
                 \A w \in WorkerIds : workers[w].sid = s => ~WorkerAlive(w)]_vars


\* C34: the audio queue of a session is bounded: however many chunks the
\* client sends, and whether the worker is blocked or has exited, the
\* chunks waiting in the queue stay below the number a client sends.
C34_AudioQueueBounded ==
    \A s \in SIDs : Len(sessions[s].audio_queue) < MaxChunks


\* Claim side: thread w, created for some session, finds the stop flag of
\* that session's record false.
FlagDown(w) ==
    /\ workers[w].pc # "unborn"
    /\ ~sessions[workers[w].sid].stream_active

\* Claim side: the step of w emitted a transcription notification or wrote
\* one of the texts.
Produced(w) ==
    LET s == workers[w].sid
        log == emitted'[s].workers[w]
    IN /\ workers'[w] # workers[w]
       /\ \/ /\ log # emitted[s].workers[w]
             /\ log[Len(log)].event = "transcription"
          \/ sessions'[s].original_text # sessions[s].original_text
          \/ sessions'[s].translated_text # sessions[s].translated_text

\* C38: a response a worker takes while stream_active is false produces no
\* notification, no translation call and no append to either text; while
\* the flag is false the only step of a worker that still writes a text or
\* emits a transcription is the end of the one response it was processing
\* when the flag fell, after which it processes no other.
C38_NothingAfterStopFlag ==
    [][\A w \in WorkerIds :
          FlagDown(w) =>
              /\ Took(w) => (NothingDone(w) /\ ~WorkerAlive(w)')
              /\ Produced(w) =>
                     /\ workers[w].pc = "translating"
                     /\ FinalEnded(w)
                     /\ workers'[w].pc = "streaming"]_vars

\* A worker was inside the translation of a final result when stop_session
\* cleared the flag; it finished that result, then took the next response
\* and left the loop.
C38_Witness ==
    \E w \in WorkerIds :
        LET s == workers[w].sid
            log == emitted[s].workers[w]
        IN /\ workers[w].last = "dropped"
           /\ workers[w].translations = 1
           /\ ~sessions[s].stream_active
           /\ stopsHandled[s] = 1
           /\ sessions[s].translated_text # << >>
           /\ Len(log) = 1 /\ log[1].is_final /\ log[1].n < workers[w].cur


\* Claim side: a start_session handler of s ends in this step, either after
\* its wait or, for an id without a record, at once.
StartEnds(s) ==
    \/ startPc[s] = "sleeping" /\ startPc'[s] = "idle"
    \/ /\ startPc[s] = "idle" /\ startPc'[s] = "idle"
       /\ emitted'[s].handlers # emitted[s].handlers
       /\ connState' = connState /\ tts' = tts /\ stopsHandled' = stopsHandled

\* Claim side: the answer of a start_session that found no record: one error
\* notification, no session_started, no record.
StartRefused(s) ==
    /\ emitted'[s].handlers["error"] = HandlerErrors(s) + 1
    /\ emitted'[s].handlers["session_started"] = emitted[s].handlers["session_started"]
    /\ connState'[s] = connState[s]
    /\ sessions'[s] = sessions[s]
    /\ workers' = workers

====
